---- MODULE Spec2Model ----
(***************************************************************************)
(* The booking forms of luxen-booking.  There are four page variants:      *)
(*   "promo"      src/app/layout.tsx   one-room home clean, flat deposit    *)
(*   "office"     unnamed/part_001     office clean, current form           *)
(*   "officeOld"  unnamed/part_002     office clean, older form             *)
(*   "home"       unnamed/part_004     residential clean                    *)
(*                                                                         *)
(* Availability: getDayAvail, the blocked-date scanner (computeBlockedDays) *)
(* and the booking conflict filter (loadTimes).  The four variants carry    *)
(* the same code for these three functions; line numbers refer to           *)
(* src/src/app/layout.tsx.                                                  *)
(* Pricing: the pricing memo of each variant.                               *)
(*                                                                         *)
(* Representation of JavaScript values:                                    *)
(*  - a string the code takes apart is a sequence of one-character         *)
(*    strings; the empty sequence also stands for an absent (undefined)    *)
(*    string field, which the code only ever tests for truthiness; a       *)
(*    string the code only compares or tests for truthiness may be a       *)
(*    TLA+ string;                                                         *)
(*  - a number that may be NaN is a record [nan, v];                       *)
(*  - a number of the pricing is an IEEE 754 double, held exactly (see     *)
(*    the section on doubles);                                             *)
(*  - a Date is a number of minutes since a Monday 00:00 local time;       *)
(*  - an object is a function whose DOMAIN is the set of keys present.     *)
(***************************************************************************)
EXTENDS Integers, Sequences, FiniteSets, TLC

VARIABLES
  staffStore,      \* Firestore collection 'staff': sequence of staff documents
  bookingsStore,   \* Firestore collection 'bookings': sequence of booking documents
  unavailStore,    \* Firestore collection 'unavailability': date key -> document
  now,             \* the wall clock (Date.now()), minutes
  scanPc,          \* position of the computeBlockedDays effect: "pending" | "done"
  blockedDates,    \* React state blockedDates: set of date keys
  selectedDate,    \* React state selectedDate: a Date or NoDate
  availableTimes,  \* React state availableTimes: sequence of hour labels
  timesLoading,    \* React state timesLoading
  loads,           \* loadTimes runs suspended at an await, oldest first
  lastLoad,        \* the latest loadTimes run: its closure values and how it ended
  lastScan,        \* how the computeBlockedDays run ended: "none" | "ok" | "failed"
  probePc,         \* position of a direct call of a helper: "idle" | "in" | "out"
  probeObj,        \* its first argument (availObj of getDayAvail)
  probeDay,        \* its second argument (weekdayLower of getDayAvail)
  probeOut,        \* its return value
  variant,         \* which page is mounted
  rooms,           \* React state rooms: sequence of [typeId, sizeId]
  extras,          \* React state extras: add-on counts
  form,            \* React state form
  kitchensCount,   \* React state kitchensCount (older office form)
  kitchenSizeId,   \* React state kitchenSizeId (older office form)
  toiletRoomsCount, \* React state toiletRoomsCount (older office form)
  avgCubicles,     \* React state avgCubicles (older office form)
  pricing,         \* the value of the pricing memo
  quotePc,         \* position of the pricing memo: "idle" | "stale" | "fresh"
  step,            \* React state step: index of the wizard step shown
  selectedTime,    \* React state selectedTime: an hour label, <<>> if none
  lookupChosen,    \* AddressLookup shows its selected address (and "Change")
  bookingComplete, \* React state bookingComplete
  zapConfigured,   \* the global ZapUrl is a string longer than 10 (home form)
  submissions,     \* the onSubmit calls so far, oldest first
  bookingDocs,     \* Firestore collection 'bookings' as written: orderId -> doc
  webhooks,        \* webhook requests delivered: set of [orderId, call]
  finances,        \* Firestore collection 'finances' as written: a set of
                   \* documents [type, orderId, call]
  consoleErrors,   \* console.error / console.warn messages: [message, call]
                   \* (call is history: the onSubmit call it comes from)
  lastAlert,       \* the message of the latest window.alert, "" if none
  browserReport,   \* the browser stopped a submit on a required control
  draft            \* history: number of times onSubmit has reset the form

availVars == <<staffStore, bookingsStore, unavailStore, now, scanPc,
               blockedDates, selectedDate, availableTimes, timesLoading,
               loads, lastLoad, lastScan>>
probeVars == <<probePc, probeObj, probeDay, probeOut>>
jobVars == <<variant, rooms, extras, form, kitchensCount, kitchenSizeId,
             toiletRoomsCount, avgCubicles>>
quoteVars == <<jobVars, pricing, quotePc>>
submitVars == <<step, selectedTime, lookupChosen, bookingComplete,
                zapConfigured, submissions, bookingDocs, webhooks, finances,
                consoleErrors, lastAlert, browserReport, draft>>
vars == <<availVars, probeVars, quoteVars, submitVars>>

----------------------------------------------------------------------------
(* Bounds of the model. *)
MaxStaff == 2       \* staff documents in the roster
MaxBookings == 1    \* booking documents in the store
MaxRooms == 2       \* rows of the rooms list, additional rooms ticked
MaxAddOns == 1      \* add-on units chosen in all
MaxSubmits == 2    \* calls of onSubmit in one run

----------------------------------------------------------------------------
(* Numbers *)
Num(n) == [nan |-> FALSE, v |-> n]
NaN == [nan |-> TRUE, v |-> 0]

MinsPerHour == 60
HoursPerDay == 24
MinsPerDay == HoursPerDay * MinsPerHour

\* a < b on JavaScript numbers and Dates: false when either side is NaN /
\* an Invalid Date
NumLt(a, b) == ~a.nan /\ ~b.nan /\ a.v < b.v

\* Math.min(...xs) of a non-empty list: NaN if any element is NaN
RECURSIVE MathMin(_)
MathMin(xs) ==
  IF Len(xs) = 1 THEN xs[1]
  ELSE LET r == MathMin(Tail(xs))
       IN  IF xs[1].nan \/ r.nan THEN NaN
           ELSE IF xs[1].v <= r.v THEN xs[1] ELSE r

\* Math.max(0, x)
MathMax0(x) == IF x.nan THEN NaN ELSE IF x.v < 0 THEN Num(0) ELSE x

----------------------------------------------------------------------------
(* Strings *)
Digits == {"0", "1", "2", "3", "4", "5", "6", "7", "8", "9"}
DigitVal(c) ==
  CASE c = "0" -> 0 [] c = "1" -> 1 [] c = "2" -> 2 [] c = "3" -> 3
    [] c = "4" -> 4 [] c = "5" -> 5 [] c = "6" -> 6 [] c = "7" -> 7
    [] c = "8" -> 8 [] c = "9" -> 9

\* t.split(':'): the pieces of t between the colons
RECURSIVE SplitColon(_)
SplitColon(t) ==
  IF \A i \in 1..Len(t) : t[i] # ":" THEN <<t>>
  ELSE LET i == CHOOSE j \in 1..Len(t) :
                  t[j] = ":" /\ \A k \in 1..(j - 1) : t[k] # ":"
       IN  <<SubSeq(t, 1, i - 1)>> \o SplitColon(SubSeq(t, i + 1, Len(t)))

\* value of a sequence of digits
RECURSIVE DigitsValue(_)
DigitsValue(ds) ==
  IF ds = <<>> THEN 0
  ELSE DigitsValue(SubSeq(ds, 1, Len(ds) - 1)) * 10 + DigitVal(ds[Len(ds)])

\* parseInt(s, 10) on unsigned input: the leading digits, NaN if there are none
ParseInt(s) ==
  LET n == IF \A i \in 1..Len(s) : s[i] \in Digits THEN Len(s)
           ELSE (CHOOSE j \in 1..Len(s) :
                    s[j] \notin Digits /\ \A k \in 1..(j - 1) : s[k] \in Digits) - 1
  IN  IF n = 0 THEN NaN ELSE Num(DigitsValue(SubSeq(s, 1, n)))

\* const [hh, mm = '0'] = t.split(':');
\* return parseInt(hh, 10) * 60 + parseInt(mm, 10);
timeToMinutes(t) ==
  LET parts == SplitColon(t)
      hh == ParseInt(parts[1])
      mm == ParseInt(IF Len(parts) >= 2 THEN parts[2] ELSE <<"0">>)
  IN  IF hh.nan \/ mm.nan THEN NaN ELSE Num(hh.v * MinsPerHour + mm.v)

\* x >= a && x < b
within(x, a, b) == ~x.nan /\ ~a.nan /\ ~b.nan /\ x.v >= a.v /\ x.v < b.v

ALL_TIMES == << <<"7">>, <<"8">>, <<"9">>, <<"1", "0">>, <<"1", "1">>,
                <<"1", "2">>, <<"1", "3">>, <<"1", "4">>, <<"1", "5">>,
                <<"1", "6">>, <<"1", "7">>, <<"1", "8">>, <<"1", "9">>,
                <<"2", "0">> >>

\* `${h}:00`
SlotKey(h) == h \o <<":", "0", "0">>

DigitChars == <<"0", "1", "2", "3", "4", "5", "6", "7", "8", "9">>

\* String(h) of a non-negative integer
RECURSIVE IntToStr(_)
IntToStr(n) ==
  LET d == DigitChars[(n % 10) + 1]
  IN  IF n < 10 THEN <<d>> ELSE IntToStr(n \div 10) \o <<d>>

\* the return value null
NullString == << "null" >>

WhiteSpace == { " ", "\t" }

\* raw.replace(/[^\d]/g, '')
DigitsOnly(raw) == SelectSeq(raw, LAMBDA c : c \in Digits)

\* s.startsWith(p)
startsWith(s, p) == Len(s) >= Len(p) /\ SubSeq(s, 1, Len(p)) = p

\* raw.trim()
Trim(raw) ==
  IF \A i \in 1..Len(raw) : raw[i] \in WhiteSpace THEN <<>>
  ELSE LET a == CHOOSE i \in 1..Len(raw) :
                  /\ raw[i] \notin WhiteSpace
                  /\ \A j \in 1..(i - 1) : raw[j] \in WhiteSpace
           b == CHOOSE i \in 1..Len(raw) :
                  /\ raw[i] \notin WhiteSpace
                  /\ \A j \in (i + 1)..Len(raw) : raw[j] \in WhiteSpace
       IN  SubSeq(raw, a, b)

\* toE164UK with the test for a leading + made first
toE164UKPlusFirst(raw) ==
  IF raw = <<>> THEN NullString
  ELSE LET digits == DigitsOnly(raw)
       IN  IF startsWith(Trim(raw), <<"+">>) THEN Trim(raw)
           ELSE IF startsWith(digits, <<"0">>) /\ Len(digits) >= 10
           THEN <<"+", "4", "4">> \o Tail(digits)
           ELSE IF startsWith(digits, <<"4", "4">>) THEN <<"+">> \o digits
           ELSE <<"+">> \o digits

toE164UK(raw) ==
  IF raw = <<>> THEN NullString
  ELSE LET digits == DigitsOnly(raw)
       IN  IF startsWith(digits, <<"0">>) /\ Len(digits) >= 10
           THEN <<"+", "4", "4">> \o Tail(digits)
           ELSE IF startsWith(digits, <<"4", "4">>) THEN <<"+">> \o digits
           ELSE IF startsWith(Trim(raw), <<"+">>) THEN Trim(raw)
           ELSE <<"+">> \o digits

----------------------------------------------------------------------------
(* Dates *)
NoDate == -1                       \* selectedDate === null

\* dt.setHours(h, 0, 0, 0)
SetHours(d, h) == (d \div MinsPerDay) * MinsPerDay + h * MinsPerHour

\* ymd(d): the local calendar day of d, used as the date key
ymd(d) == d \div MinsPerDay

WeekdayLong ==
  << <<"m", "o", "n", "d", "a", "y">>,
     <<"t", "u", "e", "s", "d", "a", "y">>,
     <<"w", "e", "d", "n", "e", "s", "d", "a", "y">>,
     <<"t", "h", "u", "r", "s", "d", "a", "y">>,
     <<"f", "r", "i", "d", "a", "y">>,
     <<"s", "a", "t", "u", "r", "d", "a", "y">>,
     <<"s", "u", "n", "d", "a", "y">> >>

\* d.toLocaleDateString('en-GB', { weekday: 'long' }).toLowerCase()
WeekdayIndex(d) == ((d \div MinsPerDay) % Len(WeekdayLong)) + 1
WeekdayLower(d) == WeekdayLong[WeekdayIndex(d)]

UpperCase(c) ==
  CASE c = "m" -> "M" [] c = "t" -> "T" [] c = "w" -> "W" [] c = "f" -> "F"
    [] c = "s" -> "S" [] OTHER -> c

\* lower.charAt(0).toUpperCase() + lower.slice(1)
titleCaseDay(lower) ==
  IF lower = <<>> THEN <<>> ELSE <<UpperCase(lower[1])>> \o Tail(lower)

----------------------------------------------------------------------------
(* Availability Model: getDayAvail *)

\* a field of a staff document that should hold a number
NumField(n) == [kind |-> "number", v |-> n]
NoField == [kind |-> "undefined", v |-> 0]          \* field absent
TextField == [kind |-> "string", v |-> 0]           \* a non-numeric string

\* Number(x)
ToNumber(x) == IF x.kind = "number" THEN Num(x.v) ELSE NaN

\* x ?? dflt
OrElse(x, dflt) == IF x.kind = "undefined" THEN NumField(dflt) ELSE x

\* the value stored under one weekday key of an availability object
DayObject(available, startTime, endTime, from, to) ==
  [kind |-> "object", available |-> available, startTime |-> startTime,
   endTime |-> endTime, from |-> from, to |-> to]
DayNull == [kind |-> "null", available |-> FALSE, startTime |-> <<>>,
            endTime |-> <<>>, from |-> <<>>, to |-> <<>>]
DayScalar == [kind |-> "scalar", available |-> FALSE, startTime |-> <<>>,
              endTime |-> <<>>, from |-> <<>>, to |-> <<>>]
DayUndefined == [kind |-> "undefined", available |-> FALSE, startTime |-> <<>>,
                 endTime |-> <<>>, from |-> <<>>, to |-> <<>>]

\* obj[key]
Get(obj, key) == IF key \in DOMAIN obj THEN obj[key] ELSE DayUndefined

NullAvail == [null |-> TRUE, available |-> FALSE, start |-> <<>>, end |-> <<>>]

DEFAULT_START == <<"0", "7", ":", "0", "0">>
DEFAULT_END == <<"2", "0", ":", "0", "0">>

\* a || b || c on strings
Or3(a, b, c) == IF a # <<>> THEN a ELSE IF b # <<>> THEN b ELSE c

\* getDayAvail reporting every record as available
getDayAvailAlways(availObj, weekdayLower) ==
  LET lo == Get(availObj, weekdayLower)
      a == IF lo.kind \in {"undefined", "null"}
           THEN Get(availObj, titleCaseDay(weekdayLower))
           ELSE lo
  IN  IF a.kind # "object" THEN NullAvail
      ELSE [null |-> FALSE,
            available |-> TRUE,
            start |-> Or3(a.startTime, a.from, DEFAULT_START),
            end |-> Or3(a.endTime, a.to, DEFAULT_END)]

\* getDayAvail falling back to 07:00-20:00 as a whole when either time is missing
getDayAvailAllOrNothing(availObj, weekdayLower) ==
  LET lo == Get(availObj, weekdayLower)
      a == IF lo.kind \in {"undefined", "null"}
           THEN Get(availObj, titleCaseDay(weekdayLower))
           ELSE lo
      start == Or3(a.startTime, a.from, <<>>)
      end == Or3(a.endTime, a.to, <<>>)
  IN  IF a.kind # "object" THEN NullAvail
      ELSE IF start = <<>> \/ end = <<>>
           THEN [null |-> FALSE, available |-> a.available,
                 start |-> DEFAULT_START, end |-> DEFAULT_END]
      ELSE [null |-> FALSE, available |-> a.available,
            start |-> start, end |-> end]

\* An absent availability field is the empty object: both give null.
getDayAvail(availObj, weekdayLower) ==
  LET lo == Get(availObj, weekdayLower)
      a == IF lo.kind \in {"undefined", "null"}
           THEN Get(availObj, titleCaseDay(weekdayLower))
           ELSE lo
  IN  IF a.kind # "object" THEN NullAvail
      ELSE [null |-> FALSE,
            available |-> a.available,
            start |-> Or3(a.startTime, a.from, DEFAULT_START),
            end |-> Or3(a.endTime, a.to, DEFAULT_END)]

\* av?.available === true
AvailableOn(s, weekday) ==
  LET av == getDayAvail(s.availability, weekday)
  IN  ~av.null /\ av.available

\* the roster without the filter on active
ActiveStaffAll(docs) == docs

\* .filter((s) => s.active !== false)
ActiveStaff(docs) == SelectSeq(docs, LAMBDA s : s.active # "false")

----------------------------------------------------------------------------
(* Blocked-Date Scanner: the body of computeBlockedDays after the roster   *)
(* has been read.                                                          *)
SCAN_FROM == -30
SCAN_TO == 60
DEFAULT_MIN_NOTICE == 12
CLOSING_HOUR == 20

globalMinNotice(staff) ==
  IF Len(staff) > 0
  THEN MathMin([i \in 1..Len(staff) |->
                  ToNumber(OrElse(staff[i].minNoticeHours, DEFAULT_MIN_NOTICE))])
  ELSE Num(DEFAULT_MIN_NOTICE)

\* new Date(Date.now() + hours * 3600_000)
Cutoff(t, hours) == IF hours.nan THEN NaN ELSE Num(t + hours.v * MinsPerHour)

\* staff.some((s) => getDayAvail(s.availability, weekday)?.available === true)
\* for the weekday names from position n on
RECURSIVE StaffAvailable(_, _)
StaffAvailable(staff, n) ==
  IF n > Len(WeekdayLong) THEN <<>>
  ELSE <<\E k \in 1..Len(staff) : AvailableOn(staff[k], WeekdayLong[n])>>
       \o StaffAvailable(staff, n + 1)

\* one iteration of the for loop: is the date i days from today blocked?
\* availableOn holds the value of staff.some(...) for each weekday and cutoff
\* is new Date(Date.now() + globalMinNotice * 3600_000); neither changes
\* from one iteration to the next.
ScanBlocks(availableOn, cutoff, t, i) ==
  LET today0 == SetHours(t, 0)
      dt == SetHours(t, 0) + i * MinsPerDay
      staffAvailableToday == availableOn[WeekdayIndex(dt)]
      endOfDay == SetHours(dt, CLOSING_HOUR)
  IN  IF dt < today0 THEN TRUE
      ELSE IF ~staffAvailableToday THEN TRUE
      ELSE NumLt(Num(endOfDay), cutoff)

ComputeBlocked(docs, t) ==
  LET staff == ActiveStaff(docs)
      availableOn == StaffAvailable(staff, 1)
      cutoff == Cutoff(t, globalMinNotice(staff))
  IN  { ymd(SetHours(t, 0) + i * MinsPerDay) :
          i \in { j \in SCAN_FROM..(SCAN_TO - 1) :
                    ScanBlocks(availableOn, cutoff, t, j) } }

----------------------------------------------------------------------------
(* Booking Conflict Filter: the steps of loadTimes *)

NoOverride ==
  [exists |-> FALSE, hasBookedTimeSlots |-> FALSE,
   bookedTimeSlots |-> <<>>, fields |-> <<>>]

\* truthy entries of a key -> boolean object
TruthyKeys(obj) == { k \in DOMAIN obj : obj[k] }

FIRST_HOUR == 7
LAST_HOUR == 20

\* bookedLegacy without the legacy per-hour fields
BookedLegacyNoFields(snap) ==
  IF ~snap.exists THEN {}
  ELSE IF snap.hasBookedTimeSlots THEN TruthyKeys(snap.bookedTimeSlots)
  ELSE {}

\* the bookedLegacy set built from the unavailability document
BookedLegacy(snap) ==
  IF ~snap.exists THEN {}
  ELSE IF snap.hasBookedTimeSlots THEN TruthyKeys(snap.bookedTimeSlots)
  ELSE { k \in { SlotKey(IntToStr(h)) : h \in FIRST_HOUR..LAST_HOUR } :
           k \in DOMAIN snap.fields /\ snap.fields[k] }

\* query(collection(db, 'bookings'), where('date', '==', key))
BookingsOn(store, key) == SelectSeq(store, LAMBDA b : b.date = key)

DayStaff(docs, weekday) ==
  SelectSeq(ActiveStaff(docs), LAMBDA s : AvailableOn(s, weekday))

\* a non-finite notice read as no notice at all
NoticeOfZero(s) ==
  LET v == ToNumber(s.minNoticeHours)
  IN  IF v.nan THEN Num(0) ELSE v

\* Number.isFinite(v) ? v : 12
NoticeOf(s) ==
  LET v == ToNumber(s.minNoticeHours)
  IN  IF v.nan THEN Num(DEFAULT_MIN_NOTICE) ELSE v

minNotice(dayStaff) == MathMin([i \in 1..Len(dayStaff) |-> NoticeOf(dayStaff[i])])

DEFAULT_BUFFER == 30

\* What the loops of loadTimes read of a booking and of a member of dayStaff
\* does not depend on the slot: it is computed once per run.

\* timeToMinutes of the two ends of booking b
BookingSpan(b) ==
  [timed |-> b.startTime # <<>> /\ b.endTime # <<>>,
   bs |-> timeToMinutes(b.startTime),
   be |-> timeToMinutes(b.endTime)]

RECURSIVE BookingSpans(_)
BookingSpans(bookings) ==
  IF bookings = <<>> THEN <<>>
  ELSE <<BookingSpan(Head(bookings))>> \o BookingSpans(Tail(bookings))

\* getDayAvail of staff member s, its window in minutes, and
\* Number(s['travelBufferMins'] ?? 30)
StaffWindow(s, weekday) ==
  LET av == getDayAvail(s.availability, weekday)
  IN  [null |-> av.null,
       available |-> av.available,
       start |-> timeToMinutes(av.start),
       end |-> timeToMinutes(av.end),
       buffer |-> ToNumber(OrElse(s.travelBufferMins, DEFAULT_BUFFER))]

RECURSIVE StaffWindows(_, _)
StaffWindows(dayStaff, weekday) ==
  IF dayStaff = <<>> THEN <<>>
  ELSE <<StaffWindow(Head(dayStaff), weekday)>>
       \o StaffWindows(Tail(dayStaff), weekday)

\* collision against the bare booking interval, without the travel buffer
CollidesNoBuffer(spans, slotMins, buffer) ==
  \E j \in 1..Len(spans) :
    LET b == spans[j]
    IN  IF ~b.timed THEN FALSE
        ELSE within(slotMins, b.bs, b.be)

\* bookings.some(...) for one staff member's buffer
Collides(spans, slotMins, buffer) ==
  \E j \in 1..Len(spans) :
    LET b == spans[j]
    IN  IF ~b.timed THEN FALSE
        ELSE LET bsExp == MathMax0(IF b.bs.nan \/ buffer.nan THEN NaN
                                   ELSE Num(b.bs.v - buffer.v))
                 beExp == IF b.be.nan \/ buffer.nan THEN NaN
                          ELSE Num(b.be.v + buffer.v)
             IN  within(slotMins, bsExp, beExp)

\* the inner loop giving up after the staff member at position i
AtLeastOneFirstOnly(windows, i, slotMins, spans) ==
  IF i > Len(windows) THEN FALSE
  ELSE LET w == windows[i]
       IN  /\ ~w.null
           /\ w.available
           /\ within(slotMins, w.start, w.end)
           /\ ~Collides(spans, slotMins, w.buffer)

\* the inner loop over dayStaff from position i on: atLeastOne
RECURSIVE AtLeastOne(_, _, _, _)
AtLeastOne(windows, i, slotMins, spans) ==
  IF i > Len(windows) THEN FALSE
  ELSE LET w == windows[i]
           rest == AtLeastOne(windows, i + 1, slotMins, spans)
       IN  IF w.null \/ ~w.available THEN rest
           ELSE IF ~within(slotMins, w.start, w.end) THEN rest
           ELSE IF ~Collides(spans, slotMins, w.buffer) THEN TRUE
           ELSE rest

\* the outer loop over the candidate keys from position i on: refined
RECURSIVE Refine(_, _, _, _, _, _)
Refine(candidate, i, date, noticeCutoff, windows, spans) ==
  IF i > Len(candidate) THEN <<>>
  ELSE LET k == candidate[i]
           hh == SplitColon(k)[1]
           slotDt == SetHours(date, ParseInt(hh).v)
           rest == Refine(candidate, i + 1, date, noticeCutoff, windows, spans)
       IN  IF NumLt(Num(slotDt), noticeCutoff) THEN rest
           ELSE IF AtLeastOne(windows, 1, timeToMinutes(k), spans)
                THEN <<hh>> \o rest
           ELSE rest

\* ALL_TIMES.map((h) => `${h}:00`).filter((k) => !bookedLegacy.has(k))
Candidate(bookedLegacy) ==
  SelectSeq([i \in 1..Len(ALL_TIMES) |-> SlotKey(ALL_TIMES[i])],
            LAMBDA k : k \notin bookedLegacy)

\* what loadTimes passes to setAvailableTimes once its three reads are in
ComputeTimes(date, bookedLegacy, bookings, docs, t) ==
  LET weekday == WeekdayLower(date)
      dayStaff == DayStaff(docs, weekday)
  IN  IF Len(dayStaff) = 0 THEN <<>>
      ELSE Refine(Candidate(bookedLegacy), 1, date,
                  Cutoff(t, minNotice(dayStaff)),
                  StaffWindows(dayStaff, weekday), BookingSpans(bookings))

----------------------------------------------------------------------------
(* The stores the pages read: small rosters, bookings and overrides.       *)

T0900 == <<"0", "9", ":", "0", "0">>
T1000 == <<"1", "0", ":", "0", "0">>
T1130 == <<"1", "1", ":", "3", "0">>
T1200 == <<"1", "2", ":", "0", "0">>
T1300 == <<"1", "3", ":", "0", "0">>
T1400 == <<"1", "4", ":", "0", "0">>
T1700 == <<"1", "7", ":", "0", "0">>
T1800 == <<"1", "8", ":", "0", "0">>
S900 == <<"9", ":", "0", "0">>        \* "9:00", as onSubmit writes startTime

AllDays == 1..Len(WeekdayLong)
WorkDays == 1..5
WeekendDays == {6, 7}

\* an availability object with value lowerVal under the lower-case keys of
\* lowerDays and titleVal under the capitalized keys of titleDays
AvailMap(lowerDays, lowerVal, titleDays, titleVal) ==
  [k \in { WeekdayLong[i] : i \in lowerDays }
         \cup { titleCaseDay(WeekdayLong[i]) : i \in titleDays } |->
     IF \E i \in lowerDays : k = WeekdayLong[i] THEN lowerVal ELSE titleVal]

Day0917 == DayObject(TRUE, T0900, T1700, <<>>, <<>>)
DayEndOnly == DayObject(TRUE, <<>>, T1800, <<>>, <<>>)
DayFromTo == DayObject(TRUE, <<>>, <<>>, T1000, T1400)
DayOff == DayObject(FALSE, T0900, T1700, <<>>, <<>>)

StaffDoc(active, availability, minNoticeHours, travelBufferMins) ==
  [active |-> active, availability |-> availability,
   minNoticeHours |-> minNoticeHours, travelBufferMins |-> travelBufferMins]

StaffDocs ==
  << StaffDoc("true", AvailMap(WorkDays, Day0917, {}, DayUndefined),
              NumField(12), NumField(30)),
     StaffDoc("missing", AvailMap({}, DayUndefined, AllDays, DayEndOnly),
              NoField, NoField),
     StaffDoc("false", AvailMap(AllDays, Day0917, {}, DayUndefined),
              NumField(0), NumField(0)),
     StaffDoc("true", AvailMap(WeekendDays, DayFromTo, WorkDays, Day0917),
              TextField, NumField(60)),
     StaffDoc("true", AvailMap(AllDays, DayNull, AllDays, Day0917),
              NumField(2), NumField(0)),
     StaffDoc("true", AvailMap(WorkDays, DayScalar, AllDays, Day0917)
                        @@ AvailMap(WeekendDays, DayOff, {}, DayUndefined),
              NumField(1), NumField(30)) >>

\* sequences of at most n different documents of docs, in the order of docs
RECURSIVE SeqsFrom(_, _, _)
SeqsFrom(docs, from, n) ==
  IF n = 0 THEN { <<>> }
  ELSE { <<>> } \cup
       UNION { { <<docs[i]>> \o r : r \in SeqsFrom(docs, i + 1, n - 1) } :
               i \in from..Len(docs) }

Rosters == SeqsFrom(StaffDocs, 1, MaxStaff)

BaseDay == 5 * Len(WeekdayLong)          \* a Monday
Morning == BaseDay * MinsPerDay + 9 * MinsPerHour + 30
Evening == BaseDay * MinsPerDay + 21 * MinsPerHour + 15
NowChoices == { Morning, Evening }

Today(t) == SetHours(t, 0)
Tomorrow(t) == SetHours(t, 0) + MinsPerDay
Saturday(t) == SetHours(t, 0) + 5 * MinsPerDay

BookingDoc(date, startTime, endTime) ==
  [date |-> date, startTime |-> startTime, endTime |-> endTime]

BookingDocs(t) ==
  << BookingDoc(ymd(Tomorrow(t)), T1200, T1300),
     BookingDoc(ymd(Tomorrow(t)), S900, T1130),
     BookingDoc(ymd(Saturday(t)), T1400, <<>>) >>

BookedTimeSlotsDoc(slots) ==
  [exists |-> TRUE, hasBookedTimeSlots |-> TRUE,
   bookedTimeSlots |-> slots, fields |-> <<>>]
LegacyDoc(fields) ==
  [exists |-> TRUE, hasBookedTimeSlots |-> FALSE,
   bookedTimeSlots |-> <<>>, fields |-> fields]

Overrides(t) ==
  { <<>>,
    (ymd(Tomorrow(t)) :> BookedTimeSlotsDoc((SlotKey(<<"1", "0">>) :> TRUE)
                                            @@ (SlotKey(<<"1", "1">>) :> FALSE))),
    (ymd(Tomorrow(t)) :> LegacyDoc((SlotKey(<<"9">>) :> TRUE)
                                   @@ (SlotKey(<<"1", "4">>) :> TRUE)
                                   @@ (SlotKey(<<"1", "5">>) :> FALSE))) }

\* getDoc(doc(db, 'unavailability', key))
GetDoc(store, key) == IF key \in DOMAIN store THEN store[key] ELSE NoOverride

\* the dates of the calendar the user clicks in this model
Clickable(t) == { Tomorrow(t), Saturday(t) }

----------------------------------------------------------------------------
(* Doubles: IEEE 754 double arithmetic on the non-negative numbers of the pricing   *)
(* tables.  A number is held as the count of units of 2^-55 it contains,   *)
(* written little-endian in limbs of 11 bits (<<>> is zero); every double   *)
(* of at least 2^-3 is a whole number of such units.  The operations on    *)
(* limbs are functions, so that an operand is a value when they start.     *)
LIMB == 2048
LIMB_BITS == 11
FRAC_LIMBS == 5
FRAC_BITS == FRAC_LIMBS * LIMB_BITS
MANTISSA_BITS == 53

\* F at the value of x: the expression x is evaluated once, as the
\* right-hand side of a const declaration is
With(x, F(_)) == CHOOSE r \in { F(u) : u \in {x} } : TRUE

Big == Seq(Nat)

Limb(a, i) == IF i <= Len(a) THEN a[i] ELSE 0

Max(a, b) == IF a >= b THEN a ELSE b

\* a without the zero limbs at its high end
BigTrim[a \in Big] ==
  SubSeq(a, 1, IF \A i \in 1..Len(a) : a[i] = 0 THEN 0
               ELSE CHOOSE i \in 1..Len(a) :
                      a[i] # 0 /\ \A j \in (i + 1)..Len(a) : a[j] = 0)

\* the carry into limb i of a + b: a limb below gives one and every limb
\* between passes it on
BigAddC(a, b, i) ==
  \E j \in 1..(i - 1) :
    /\ Limb(a, j) + Limb(b, j) >= LIMB
    /\ \A k \in (j + 1)..(i - 1) : Limb(a, k) + Limb(b, k) = LIMB - 1

BigAdd[a \in Big, b \in Big] ==
  BigTrim[[i \in 1..(Max(Len(a), Len(b)) + 1) |->
             (Limb(a, i) + Limb(b, i) + (IF BigAddC(a, b, i) THEN 1 ELSE 0))
               % LIMB]]

\* the borrow from limb i of a - b
BigSubC(a, b, i) ==
  \E j \in 1..(i - 1) :
    /\ Limb(a, j) < Limb(b, j)
    /\ \A k \in (j + 1)..(i - 1) : Limb(a, k) = Limb(b, k)

\* a - b for a >= b
BigSub[a \in Big, b \in Big] ==
  BigTrim[[i \in 1..Len(a) |->
             (LIMB + Limb(a, i) - Limb(b, i)
                - (IF BigSubC(a, b, i) THEN 1 ELSE 0)) % LIMB]]

\* a < b on trimmed numbers
BigLt[a \in Big, b \in Big] ==
  \/ Len(a) < Len(b)
  \/ /\ Len(a) = Len(b)
     /\ \E i \in 1..Len(a) :
          a[i] < b[i] /\ \A j \in (i + 1)..Len(a) : a[j] = b[j]

\* a * k for 0 <= k < LIMB: the low halves of the limb products plus their
\* high halves one limb up
BigMulSmall[a \in Big, k \in Nat] ==
  BigAdd[[i \in 1..Len(a) |-> (a[i] * k) % LIMB],
         <<0>> \o [i \in 1..Len(a) |-> (a[i] * k) \div LIMB]]

\* the sum of the limb products of a * b that fall on limb k, from position i
\* of a on
RECURSIVE BigColumn(_, _, _, _)
BigColumn(a, b, k, i) ==
  IF i > Len(a) \/ i > k THEN 0
  ELSE Limb(a, i) * Limb(b, k + 1 - i) + BigColumn(a, b, k, i + 1)

\* a * b for numbers of at most LIMB / 2 limbs: the column sums, taken apart
\* into three limbs each
BigMulC[a \in Big, b \in Big] ==
  LET n == Len(a) + Len(b)
  IN  BigAdd[BigAdd[[k \in 1..n |-> BigColumn(a, b, k, 1) % LIMB],
                    <<0>> \o [k \in 1..n |->
                                (BigColumn(a, b, k, 1) \div LIMB) % LIMB]],
             <<0, 0>> \o [k \in 1..n |->
                            BigColumn(a, b, k, 1) \div (LIMB * LIMB)]]

\* the number of zero limbs at the low end of a, a # <<>>
LowZeros[a \in Big] ==
  (CHOOSE i \in 1..Len(a) : a[i] # 0 /\ \A j \in 1..(i - 1) : a[j] = 0) - 1

\* a * b: the product of the two without their low zero limbs, put back under it
BigMul[a \in Big, b \in Big] ==
  IF a = <<>> \/ b = <<>> THEN <<>>
  ELSE [i \in 1..(LowZeros[a] + LowZeros[b]) |-> 0]
         \o BigMulC[SubSeq(a, LowZeros[a] + 1, Len(a)),
                    SubSeq(b, LowZeros[b] + 1, Len(b))]

\* the number of bits of n < LIMB
BitLenSmall[n \in Nat] == CHOOSE k \in 0..LIMB_BITS : 2 ^ k > n /\ 2 ^ k <= 2 * n + 1
BitLen[a \in Big] ==
  IF a = <<>> THEN 0 ELSE LIMB_BITS * (Len(a) - 1) + BitLenSmall[a[Len(a)]]

\* a * 2^t
ShiftLeft[a \in Big, t \in Nat] ==
  BigMulSmall[[i \in 1..(t \div LIMB_BITS) |-> 0] \o a, 2 ^ (t % LIMB_BITS)]

\* a2 / LIMB^nl rounded to the nearest whole number, ties to even
RoundLimbs[a2 \in Big, nl \in Nat] ==
  LET q == SubSeq(a2, nl + 1, Len(a2))
      top == Limb(a2, nl)
      low == \E i \in 1..(nl - 1) : Limb(a2, i) # 0
      half == LIMB \div 2
      up == \/ top > half
            \/ top = half /\ low
            \/ top = half /\ ~low /\ Limb(q, 1) % 2 = 1
  IN  IF up THEN BigAdd[q, <<1>>] ELSE q

\* a / 2^s rounded to the nearest whole number, ties to even
RoundShr[a \in Big, s \in Nat] ==
  IF s = 0 THEN a
  ELSE LET nl == (s + LIMB_BITS - 1) \div LIMB_BITS
       IN  RoundLimbs[BigMulSmall[a, 2 ^ (LIMB_BITS * nl - s)], nl]

\* the double nearest to n * 2^-u, for u >= FRAC_BITS
ToDouble[n \in Big, u \in Nat] ==
  IF n = <<>> THEN <<>>
  ELSE LET s == Max(BitLen[n] - MANTISSA_BITS, u - FRAC_BITS)
       IN  ShiftLeft[RoundShr[n, s], s - (u - FRAC_BITS)]

DblAdd(x, y) == ToDouble[BigAdd[x, y], FRAC_BITS]
DblMul(x, y) == ToDouble[BigMul[x, y], 2 * FRAC_BITS]

\* the largest g with g * d <= r, for r < d * LIMB and a d whose leading limb
\* is at least LIMB / 2: the quotient of the leading limbs is that digit or
\* up to two more, and is lowered until it fits
QuotientDigit[r \in Big, d \in Big, g \in Nat] ==
  IF BigLt[r, BigMulSmall[d, g]] THEN QuotientDigit[r, d, g - 1] ELSE g

QuotientEstimate[r \in Big, d \in Big] ==
  LET n == Len(d)
      e == (Limb(r, n + 1) * LIMB + Limb(r, n)) \div d[n]
  IN  IF e >= LIMB THEN LIMB - 1 ELSE e

\* one digit of the long division: the remainder r2, which has the next
\* limb brought down, and the digit g give <<quotient, remainder>>
DivDigit[q \in Big, r2 \in Big, d \in Big, g \in Nat] ==
  << BigTrim[<<g>> \o q], BigSub[r2, BigMulSmall[d, g]] >>

\* the step of the long division by d that brings limb i of a down, a zero
\* limb if i is 0, to qr, the quotient and the remainder so far
DivNext(a, i, d, qr) ==
  LET r2 == BigTrim[<<IF i > 0 THEN a[i] ELSE 0>> \o qr[2]]
  IN  DivDigit[qr[1], r2, d, QuotientDigit[r2, d, QuotientEstimate[r2, d]]]

\* long division by d > 0 of the number whose limbs are those of a followed
\* by zero limbs, after the step that brought limb i of a down, or a zero
\* limb if i is 0, and with z zero limbs left to bring down, that one
\* included; qr is the quotient and the remainder so far.  The result is
\* <<quotient, remainder>>; once the limbs of a are used up and nothing
\* remains, the other digits are zero.
DivStep[a \in Big, i \in Nat, z \in Nat, d \in Big, qr \in Seq(Big)] ==
  IF i > 1 THEN DivStep[a, i - 1, z, d, DivNext(a, i - 1, d, qr)]
  ELSE IF qr[2] = <<>>
  THEN << BigTrim[[k \in 1..(IF i = 1 THEN z ELSE z - 1) |-> 0] \o qr[1]],
          <<>> >>
  ELSE IF i = 1
  THEN (IF z = 0 THEN qr ELSE DivStep[a, 0, z, d, DivNext(a, 0, d, qr)])
  ELSE IF z = 1 THEN qr
  ELSE DivStep[a, 0, z - 1, d, DivNext(a, 0, d, qr)]

DIV_EXTRA_LIMBS == 6

\* the double nearest to the quotient qr[1] * LIMB^-DIV_EXTRA_LIMBS of a
\* division that left the remainder qr[2]
DivRound[qr \in Seq(Big)] ==
  ToDouble[BigAdd[BigMulSmall[qr[1], 2],
                  IF qr[2] = <<>> THEN <<>> ELSE <<1>>],
           DIV_EXTRA_LIMBS * LIMB_BITS + 1]

\* x / y for y > 0: the quotient of x * LIMB^DIV_EXTRA_LIMBS by y, and
\* whether anything remains, rounded once.  Both are first scaled by 2^t to
\* bring the leading limb of the divisor to LIMB / 2 or more, and the zero
\* limbs at the low end of the divisor are taken off both.
Quotient[x \in Big, y \in Big] ==
  IF x = <<>> THEN <<>>
  ELSE LET m == LowZeros[y]
           t == LIMB_BITS - BitLenSmall[y[Len(y)]]
           d == ShiftLeft[SubSeq(y, m + 1, Len(y)), t]
           a == ShiftLeft[x, t]
       IN  DivRound[DivStep[a, Len(a), DIV_EXTRA_LIMBS - m, d,
                            DivNext(a, Len(a), d, << <<>>, <<>> >>)]]

DblDiv(x, y) == Quotient[x, y]

\* a whole number below LIMB * LIMB as a double
IntLimbs[n \in Nat] ==
  BigTrim[[i \in 1..FRAC_LIMBS |-> 0] \o <<n % LIMB, n \div LIMB>>]

FromInt(n) == IntLimbs[n]

\* the decimal literal n / d
Dec(n, d) == DblDiv(FromInt(n), FromInt(d))

\* Math.ceil(x), as an integer
CeilLimbs[x \in Big] ==
  Limb(x, FRAC_LIMBS + 1) + LIMB * Limb(x, FRAC_LIMBS + 2)
    + (IF \E i \in 1..FRAC_LIMBS : Limb(x, i) # 0 THEN 1 ELSE 0)

Ceil(x) == CeilLimbs[x]

----------------------------------------------------------------------------
(* Pricing Engine: the pricing memo of the four variants.                  *)

VARIANTS == {"promo", "office", "officeOld", "home"}

initialFormState ==
  [customerName |-> "", customerEmail |-> "", customerPhone |-> "",
   cleanliness |-> "", products |-> "",
   addressLine1 |-> "", town |-> "", postcode |-> "",
   access |-> "", keyLocation |-> "",
   bedrooms |-> <<>>, livingRooms |-> <<>>, kitchens |-> <<>>,
   bathrooms |-> <<>>, utilityRooms |-> <<>>,
   additionalRooms |-> <<>>, addOns |-> <<>>]

initialExtras == [fridge |-> 0, freezer |-> 0, dishwasher |-> 0, cupboards |-> 0]

Zero == <<>>
One == FromInt(1)
Two == FromInt(2)

MIN_HOURS(v) == IF v = "promo" THEN FromInt(1) ELSE FromInt(2)
DEPOSIT_AMOUNT == FromInt(25)
SUPPLIES_FEE(v) == IF v = "promo" THEN Zero ELSE FromInt(5)
WEEKDAY_HOURLY_RATE == FromInt(30)
WEEKEND_HOURLY_RATE == FromInt(32)
HOURLY_RATE == FromInt(28)
TEAM_THRESHOLD_HOURS(v) == IF v = "officeOld" THEN FromInt(6) ELSE FromInt(4)
TEAM_FACTOR_HOME == Dec(16, 10)
TEAM_FACTOR_OTHER == Dec(17, 10)
\* the two factors the other way round: 1.6 in the older office form only
TEAM_FACTOR_SWAPPED(v) ==
  IF v = "officeOld" THEN TEAM_FACTOR_HOME ELSE TEAM_FACTOR_OTHER

TEAM_FACTOR(v) == IF v = "home" THEN TEAM_FACTOR_HOME ELSE TEAM_FACTOR_OTHER

\* Math.ceil(x * 2) / 2
roundUpToHalf(x) == DblDiv(FromInt(Ceil(DblMul(x, Two))), Two)

\* the larger of two numbers
Larger[a \in Big, b \in Big] == IF BigLt[a, b] THEN b ELSE a

\* Math.max(a, b) taken to be b
DblMaxSecond(a, b) == b

\* Math.max(a, b)
DblMax(a, b) == Larger[a, b]

\* the whole number nearest to x, the one above when x is half way
Nearest[x \in Big] ==
  Limb(x, FRAC_LIMBS + 1) + LIMB * Limb(x, FRAC_LIMBS + 2)
    + (IF Limb(x, FRAC_LIMBS) >= LIMB \div 2 THEN 1 ELSE 0)

\* Math.round(x)
Round(x) == Nearest[x]

\* date.getDay() === 0 || date.getDay() === 6, false without a date
isWeekend(date) ==
  IF date = NoDate THEN FALSE
  ELSE WeekdayIndex(date) = 6 \/ WeekdayIndex(date) = 7

\* size id -> weight, in the current and in the older office form
SIZE_OPTIONS_OFFICE ==
  "xs" :> Dec(3, 10) @@ "s" :> Dec(5, 10) @@ "m" :> Dec(8, 10)
  @@ "l" :> Dec(11, 10) @@ "xl" :> Dec(16, 10)
SIZE_OPTIONS_OLD ==
  "s" :> Dec(5, 10) @@ "m" :> Dec(8, 10) @@ "l" :> Dec(11, 10)
  @@ "xl" :> Dec(16, 10)
SIZE_OPTIONS(v) == IF v = "office" THEN SIZE_OPTIONS_OFFICE ELSE SIZE_OPTIONS_OLD

\* room type id -> multiplier, in the current and in the older office form
ROOM_TYPES_OFFICE ==
  "open-plan" :> Dec(14, 10) @@ "meeting" :> Dec(12, 10)
  @@ "private-office" :> Dec(10, 10) @@ "reception" :> Dec(11, 10)
  @@ "corridor" :> Dec(7, 10) @@ "storage" :> Dec(8, 10)
  @@ "kitchen" :> Dec(13, 10) @@ "bathroom" :> Dec(12, 10)
ROOM_TYPES_OLD ==
  "open-plan" :> Dec(12, 10) @@ "meeting" :> Dec(10, 10)
  @@ "private-office" :> Dec(8, 10) @@ "reception" :> Dec(9, 10)
  @@ "corridor" :> Dec(5, 10) @@ "storage" :> Dec(6, 10)
ROOM_TYPES(v) == IF v = "office" THEN ROOM_TYPES_OFFICE ELSE ROOM_TYPES_OLD

CLEAN_MULTIPLIER ==
  "quite-clean" :> Dec(9, 10) @@ "average" :> Dec(10, 10)
  @@ "quite-dirty" :> Dec(125, 100) @@ "filthy" :> Dec(16, 10)

PER_CUBICLE_HOURS == Dec(35, 100)

KITCHEN_SIZE_WEIGHT ==
  "s" :> Dec(5, 10) @@ "m" :> Dec(8, 10) @@ "l" :> Dec(11, 10)
  @@ "xl" :> Dec(16, 10)

ADDON_PRICES ==
  [fridge |-> FromInt(20), freezer |-> FromInt(25),
   dishwasher |-> FromInt(10), cupboards |-> FromInt(0)]

ADDON_HOURS ==
  [fridge |-> Dec(5, 10), freezer |-> Dec(75, 100),
   dishwasher |-> Dec(25, 100), cupboards |-> Dec(25, 100)]

HOURS_WEIGHTS ==
  [bedrooms |-> Dec(10, 10), livingRooms |-> Dec(10, 10),
   kitchens |-> Dec(10, 10), bathrooms |-> Dec(10, 10),
   utilityRooms |-> Dec(5, 10), additionalRoomEach |-> Dec(5, 10)]

\* the price map of the residential add-ons; the labels are written without
\* the price they show in brackets
ADDON_MAP ==
  "Fridge" :> FromInt(20) @@ "Freezer" :> FromInt(20) @@ "Oven" :> FromInt(40)
  @@ "Ironing" :> FromInt(30) @@ "Blind cleaning" :> FromInt(20)
  @@ "Kitchen cupboards (each)" :> FromInt(0)

\* a lookup that gives 1 for a key the table does not have
FindOrOne(table, key, dflt) == IF key \in DOMAIN table THEN table[key] ELSE One

\* table.find((x) => x.id === key)?.field ?? dflt, and table[key] ?? dflt
Find(table, key, dflt) == IF key \in DOMAIN table THEN table[key] ELSE dflt

\* the loop over rooms from position i on; roomHours is the sum so far
RECURSIVE RoomHours(_, _, _, _)
RoomHours(v, rs, i, roomHours) ==
  IF i > Len(rs) THEN roomHours
  ELSE LET sizeW == Find(SIZE_OPTIONS(v), rs[i].sizeId, Zero)
           typeM == Find(ROOM_TYPES(v), rs[i].typeId, Zero)
       IN  RoomHours(v, rs, i + 1, DblAdd(roomHours, DblMul(sizeW, typeM)))

\* form.cleanliness ? CLEAN_MULTIPLIER[form.cleanliness] ?? 1 : 1
Mult(f) ==
  IF f.cleanliness = "" THEN One ELSE Find(CLEAN_MULTIPLIER, f.cleanliness, One)

\* the add-on counts weighed by a table of hours or prices, added left to right
AddOnSum(ex, table) ==
  DblAdd(DblAdd(DblAdd(DblMul(FromInt(ex.fridge), table.fridge),
                       DblMul(FromInt(ex.freezer), table.freezer)),
                DblMul(FromInt(ex.dishwasher), table.dishwasher)),
         DblMul(FromInt(ex.cupboards), table.cupboards))

\* const n = (s: string) => (s ? parseInt(s, 10) : 0), on strings of digits
CountOf(s) == IF s = <<>> THEN Zero ELSE FromInt(ParseInt(s).v)

\* (form.addOns || []).reduce((sum, key) => sum + (map[key] ?? 0), 0)
RECURSIVE AddOnsReduce(_, _, _)
AddOnsReduce(keys, i, sum) ==
  IF i > Len(keys) THEN sum
  ELSE AddOnsReduce(keys, i + 1, DblAdd(sum, Find(ADDON_MAP, keys[i], Zero)))

\* the hours before rounding: raw in the office forms, rawHours at home
RawHours(v, job) ==
  IF v = "office"
  THEN LET roomHours == RoomHours(v, job.rooms, 1, Zero)
           bathroomsCountForTime ==
             Len(SelectSeq(job.rooms, LAMBDA r : r.typeId = "bathroom"))
           toiletsHours ==
             DblMul(FromInt(bathroomsCountForTime), PER_CUBICLE_HOURS)
           addOnHours == AddOnSum(job.extras, ADDON_HOURS)
       IN  DblMul(DblAdd(DblAdd(roomHours, toiletsHours), addOnHours),
                  Mult(job.form))
  ELSE IF v = "officeOld"
  THEN LET roomHours == RoomHours(v, job.rooms, 1, Zero)
           kitchenW == IF job.kitchenSizeId # ""
                       THEN KITCHEN_SIZE_WEIGHT[job.kitchenSizeId] ELSE Zero
           kitchensHours == DblMul(FromInt(job.kitchensCount), kitchenW)
           totalCubicles ==
             DblMul(FromInt(job.toiletRoomsCount),
                    DblMax(One, FromInt(job.avgCubicles)))
           toiletsHours == DblMul(totalCubicles, PER_CUBICLE_HOURS)
       IN  DblMul(DblAdd(DblAdd(roomHours, kitchensHours), toiletsHours),
                  Mult(job.form))
  ELSE LET f == job.form
           additionalRoomsCount == FromInt(Len(f.additionalRooms))
       IN  DblMul(
             DblAdd(DblAdd(DblAdd(DblAdd(DblAdd(
               DblMul(CountOf(f.bedrooms), HOURS_WEIGHTS.bedrooms),
               DblMul(CountOf(f.livingRooms), HOURS_WEIGHTS.livingRooms)),
               DblMul(CountOf(f.kitchens), HOURS_WEIGHTS.kitchens)),
               DblMul(CountOf(f.bathrooms), HOURS_WEIGHTS.bathrooms)),
               DblMul(CountOf(f.utilityRooms), HOURS_WEIGHTS.utilityRooms)),
               DblMul(additionalRoomsCount, HOURS_WEIGHTS.additionalRoomEach)),
             Mult(f))

AddOnsTotal(v, job) ==
  IF v = "home" THEN AddOnsReduce(job.form.addOns, 1, Zero)
  ELSE AddOnSum(job.extras, ADDON_PRICES)

\* the weekday rate whatever the date
HourlyRateWeekday(v, job) ==
  IF v = "office" THEN WEEKDAY_HOURLY_RATE ELSE HOURLY_RATE

HourlyRate(v, job) ==
  IF v = "office"
  THEN (IF isWeekend(job.selectedDate) THEN WEEKEND_HOURLY_RATE
        ELSE WEEKDAY_HOURLY_RATE)
  ELSE HOURLY_RATE

\* baseEstimatedHours >= TEAM_THRESHOLD_HOURS
TeamAppliedAtThreshold(v, baseEstimatedHours) ==
  ~BigLt[baseEstimatedHours, TEAM_THRESHOLD_HOURS(v)]

\* baseEstimatedHours > TEAM_THRESHOLD_HOURS
TeamApplied(v, baseEstimatedHours) ==
  BigLt[TEAM_THRESHOLD_HOURS(v), baseEstimatedHours]

NoQuote ==
  [estimatedHours |-> Zero, baseEstimatedHours |-> Zero, teamApplied |-> FALSE,
   addOnsTotal |-> Zero, suppliesFee |-> Zero, labour |-> Zero,
   totalPrice |-> Zero]

\* the memo of the promotional page
PromoPricing ==
  [estimatedHours |-> FromInt(1), baseEstimatedHours |-> FromInt(1),
   teamApplied |-> FALSE, addOnsTotal |-> Zero, suppliesFee |-> Zero,
   labour |-> Zero, totalPrice |-> DEPOSIT_AMOUNT]

\* the memo of the three other pages.  The hours are never NaN here, so
\* that raw || 0 is raw, and raw is written where it is used.
ComputedPricing(v, job) ==
  With(DblMax(MIN_HOURS(v), roundUpToHalf(RawHours(v, job))),
       LAMBDA baseEstimatedHours :
    LET teamApplied == TeamApplied(v, baseEstimatedHours)
        effectiveUnrounded ==
          IF teamApplied THEN DblDiv(baseEstimatedHours, TEAM_FACTOR(v))
          ELSE baseEstimatedHours
        addOnsTotal == AddOnsTotal(v, job)
        suppliesFee == IF job.form.products = "bring" THEN SUPPLIES_FEE(v)
                       ELSE Zero
    IN  With(DblMax(MIN_HOURS(v), roundUpToHalf(effectiveUnrounded)),
             LAMBDA estimatedHours :
        With(DblMul(estimatedHours, HourlyRate(v, job)), LAMBDA labour :
          LET totalPrice ==
                DblDiv(FromInt(Round(DblMul(DblAdd(DblAdd(labour,
                                                          addOnsTotal),
                                                   suppliesFee),
                                            FromInt(100)))),
                       FromInt(100))
          IN  [estimatedHours |-> estimatedHours,
               baseEstimatedHours |-> baseEstimatedHours,
               teamApplied |-> teamApplied, addOnsTotal |-> addOnsTotal,
               suppliesFee |-> suppliesFee, labour |-> labour,
               totalPrice |-> totalPrice])))

\* the promotional page charging the appliances on top of the deposit
PricingWithAddOns(v, job) ==
  IF v = "promo"
  THEN LET addOnsTotal == AddOnSum(job.extras, ADDON_PRICES)
       IN  [PromoPricing EXCEPT
              !.addOnsTotal = addOnsTotal,
              !.totalPrice = DblAdd(DEPOSIT_AMOUNT, addOnsTotal)]
  ELSE ComputedPricing(v, job)

\* the value of the pricing memo of variant v for the inputs in job
Pricing(v, job) ==
  IF v = "promo" THEN PromoPricing ELSE ComputedPricing(v, job)

\* the state the memo reads
Job ==
  [rooms |-> rooms, extras |-> extras, form |-> form,
   kitchensCount |-> kitchensCount, kitchenSizeId |-> kitchenSizeId,
   toiletRoomsCount |-> toiletRoomsCount, avgCubicles |-> avgCubicles,
   selectedDate |-> selectedDate]

QuoteIdle ==
  /\ variant = "promo"
  /\ rooms = <<>>
  /\ extras = initialExtras
  /\ form = initialFormState
  /\ kitchensCount = 0
  /\ kitchenSizeId = ""
  /\ toiletRoomsCount = 0
  /\ avgCubicles = 1
  /\ pricing = NoQuote
  /\ quotePc = "idle"

\* no form has been touched and nothing has been submitted
SubmitIdle ==
  /\ step = 0
  /\ selectedTime = <<>>
  /\ lookupChosen = FALSE
  /\ bookingComplete = FALSE
  /\ zapConfigured = FALSE
  /\ submissions = <<>>
  /\ bookingDocs = <<>>
  /\ webhooks = {}
  /\ finances = {}
  /\ consoleErrors = {}
  /\ lastAlert = ""
  /\ browserReport = FALSE
  /\ draft = 0

----------------------------------------------------------------------------
(* State machine *)

\* outcome: "none" | "running" | "nodate" | "blocked" | "ok" | "failed"
\* failedAt: the read that rejected, "none" if none did
NoLoad ==
  [outcome |-> "none", date |-> NoDate, blocked |-> {}, failedAt |-> "none"]

AvailInit ==
  /\ staffStore \in Rosters
  /\ now \in NowChoices
  /\ bookingsStore \in SeqsFrom(BookingDocs(now), 1, MaxBookings)
  /\ unavailStore \in Overrides(now)
  /\ scanPc = "pending"
  /\ blockedDates = {}
  /\ selectedDate = NoDate
  /\ availableTimes = <<>>
  /\ timesLoading = FALSE
  /\ loads = <<>>
  /\ lastLoad = NoLoad
  /\ lastScan = "none"
  /\ probePc = "idle"
  /\ probeObj = <<>>
  /\ probeDay = <<>>
  /\ probeOut = NullAvail
  /\ QuoteIdle
  /\ SubmitIdle

\* A loadTimes run suspended at its first await.  seen is history: the
\* bookings and the roster as they have stood since the run began.
LoadRun(date, blocked) ==
  [date |-> date, blocked |-> blocked, pc |-> "unavailability",
   snap |-> NoOverride, bookings |-> <<>>,
   seen |-> { <<bookingsStore, staffStore>> }]

\* The synchronous head of loadTimes, run by the effect on [selectedDate,
\* blockedDates] with the values of the render that scheduled it.
StartLoad(date, blocked) ==
  IF date = NoDate \/ ymd(date) \in blocked
  THEN /\ availableTimes' = <<>>
       /\ timesLoading' = FALSE
       /\ loads' = loads
       /\ lastLoad' = [NoLoad EXCEPT !.outcome = IF date = NoDate THEN "nodate"
                                                ELSE "blocked",
                                     !.date = date, !.blocked = blocked]
  ELSE /\ timesLoading' = TRUE
       /\ loads' = Append(loads, LoadRun(date, blocked))
       /\ lastLoad' = [NoLoad EXCEPT !.outcome = "running", !.date = date,
                                     !.blocked = blocked]
       /\ UNCHANGED availableTimes

\* computeBlockedDays, and the loadTimes the change of blockedDates starts.
\* In this specification the effects run while no earlier loadTimes is
\* suspended.
ComputeBlockedDays ==
  /\ scanPc = "pending"
  /\ loads = <<>>
  /\ blockedDates' = ComputeBlocked(staffStore, now)
  /\ scanPc' = "done"
  /\ lastScan' = "ok"
  /\ StartLoad(selectedDate, blockedDates')
  /\ UNCHANGED <<staffStore, bookingsStore, unavailStore, now, selectedDate>>
  /\ UNCHANGED <<probeVars, quoteVars, submitVars>>

\* a failed scan that blocks the whole window instead of nothing
ComputeBlockedDaysFailsClosed ==
  /\ scanPc = "pending"
  /\ loads = <<>>
  /\ blockedDates' = { ymd(Today(now) + i * MinsPerDay) :
                         i \in SCAN_FROM..(SCAN_TO - 1) }
  /\ scanPc' = "done"
  /\ lastScan' = "failed"
  /\ StartLoad(selectedDate, blockedDates')
  /\ UNCHANGED <<staffStore, bookingsStore, unavailStore, now, selectedDate>>
  /\ UNCHANGED <<probeVars, quoteVars, submitVars>>

\* computeBlockedDays when getDocs(collection(db, 'staff')) rejects
ComputeBlockedDaysFails ==
  /\ scanPc = "pending"
  /\ loads = <<>>
  /\ blockedDates' = {}
  /\ scanPc' = "done"
  /\ lastScan' = "failed"
  /\ StartLoad(selectedDate, blockedDates')
  /\ UNCHANGED <<staffStore, bookingsStore, unavailStore, now, selectedDate>>
  /\ UNCHANGED <<probeVars, quoteVars, submitVars>>

\* a click on a calendar cell that is not greyed out
SelectDate(d) ==
  /\ d # selectedDate
  /\ ~(ymd(d) \in blockedDates \/ d < Today(now))
  /\ loads = <<>>
  /\ selectedDate' = d
  /\ StartLoad(d, blockedDates)
  /\ UNCHANGED <<staffStore, bookingsStore, unavailStore, now, scanPc,
                 blockedDates, lastScan>>
  /\ UNCHANGED <<probeVars, quoteVars, submitVars>>

RemoveAt(seq, i) == SubSeq(seq, 1, i - 1) \o SubSeq(seq, i + 1, Len(seq))

\* await getDoc(ref) resolves
LoadGetUnavailability(i) ==
  /\ i \in 1..Len(loads)
  /\ loads[i].pc = "unavailability"
  /\ loads' = [loads EXCEPT ![i].snap = GetDoc(unavailStore, ymd(loads[i].date)),
                            ![i].pc = "bookings"]
  /\ UNCHANGED <<staffStore, bookingsStore, unavailStore, now, scanPc,
                 blockedDates, selectedDate, availableTimes, timesLoading,
                 lastLoad, lastScan>>
  /\ UNCHANGED <<probeVars, quoteVars, submitVars>>

\* await getDocs(query(bookings ...)) resolves
LoadGetBookings(i) ==
  /\ i \in 1..Len(loads)
  /\ loads[i].pc = "bookings"
  /\ loads' = [loads EXCEPT ![i].bookings =
                              BookingsOn(bookingsStore, ymd(loads[i].date)),
                            ![i].pc = "staff"]
  /\ UNCHANGED <<staffStore, bookingsStore, unavailStore, now, scanPc,
                 blockedDates, selectedDate, availableTimes, timesLoading,
                 lastLoad, lastScan>>
  /\ UNCHANGED <<probeVars, quoteVars, submitVars>>

\* await getDocs(collection(db, 'staff')) resolves; the rest of the try block
\* and the finally block
LoadGetStaff(i) ==
  /\ i \in 1..Len(loads)
  /\ loads[i].pc = "staff"
  /\ availableTimes' = ComputeTimes(loads[i].date, BookedLegacy(loads[i].snap),
                                    loads[i].bookings, staffStore, now)
  /\ timesLoading' = FALSE
  /\ loads' = RemoveAt(loads, i)
  /\ lastLoad' = [outcome |-> "ok", date |-> loads[i].date,
                  blocked |-> loads[i].blocked, failedAt |-> "none"]
  /\ UNCHANGED <<staffStore, bookingsStore, unavailStore, now, scanPc,
                 blockedDates, selectedDate, lastScan>>
  /\ UNCHANGED <<probeVars, quoteVars, submitVars>>

\* a catch block that leaves the slot list as it was
LoadFailsKeepTimes(i) ==
  /\ i \in 1..Len(loads)
  /\ timesLoading' = FALSE
  /\ loads' = RemoveAt(loads, i)
  /\ lastLoad' = [NoLoad EXCEPT !.outcome = "failed", !.date = loads[i].date,
                                !.blocked = loads[i].blocked,
                                !.failedAt = loads[i].pc]
  /\ UNCHANGED <<staffStore, bookingsStore, unavailStore, now, scanPc,
                 blockedDates, selectedDate, lastScan, availableTimes>>
  /\ UNCHANGED <<probeVars, quoteVars, submitVars>>

\* the pending read of run i rejects: the catch and finally blocks
LoadFails(i) ==
  /\ i \in 1..Len(loads)
  /\ availableTimes' = <<>>
  /\ timesLoading' = FALSE
  /\ loads' = RemoveAt(loads, i)
  /\ lastLoad' = [NoLoad EXCEPT !.outcome = "failed", !.date = loads[i].date,
                                !.blocked = loads[i].blocked,
                                !.failedAt = loads[i].pc]
  /\ UNCHANGED <<staffStore, bookingsStore, unavailStore, now, scanPc,
                 blockedDates, selectedDate, lastScan>>
  /\ UNCHANGED <<probeVars, quoteVars, submitVars>>

AvailNext ==
  \/ ComputeBlockedDays
  \/ ComputeBlockedDaysFails
  \/ \E d \in Clickable(now) : SelectDate(d)
  \/ \E i \in 1..Len(loads) : LoadGetUnavailability(i)
  \/ \E i \in 1..Len(loads) : LoadGetBookings(i)
  \/ \E i \in 1..Len(loads) : LoadGetStaff(i)
  \/ \E i \in 1..Len(loads) : LoadFails(i)

AvailSpec == AvailInit /\ [][AvailNext]_vars

----------------------------------------------------------------------------
(* getDayAvail called on its own, over availability objects whose monday   *)
(* entries range over every combination of present and absent fields.      *)

BlankOr(t) == { <<>>, t }

DayObjects ==
  { DayObject(a, st, en, fr, to) :
      a \in BOOLEAN, st \in BlankOr(T0900), en \in BlankOr(T1800),
      fr \in BlankOr(T1000), to \in BlankOr(T1400) }

LowerEntries == DayObjects \cup { DayUndefined, DayNull, DayScalar }
TitleEntries == { DayUndefined, DayScalar, Day0917, DayEndOnly, DayOff }

\* the object with lo under "monday", ti under "Monday" (a key is left out
\* when its entry is undefined) and a fixed entry under "saturday"
ProbeObject(lo, ti) ==
  [k \in { WeekdayLong[6] }
         \cup (IF lo = DayUndefined THEN {} ELSE { WeekdayLong[1] })
         \cup (IF ti = DayUndefined THEN {}
               ELSE { titleCaseDay(WeekdayLong[1]) }) |->
     IF k = WeekdayLong[6] THEN DayFromTo
     ELSE IF k = WeekdayLong[1] THEN lo ELSE ti]

ProbeDays == { WeekdayLong[1], WeekdayLong[6], WeekdayLong[7] }

ProbeInit ==
  /\ staffStore = <<>>
  /\ bookingsStore = <<>>
  /\ unavailStore = <<>>
  /\ now = Morning
  /\ scanPc = "pending"
  /\ blockedDates = {}
  /\ selectedDate = NoDate
  /\ availableTimes = <<>>
  /\ timesLoading = FALSE
  /\ loads = <<>>
  /\ lastLoad = NoLoad
  /\ lastScan = "none"
  /\ probePc = "in"
  /\ probeObj \in { ProbeObject(lo, ti) : lo \in LowerEntries, ti \in TitleEntries }
  /\ probeDay \in ProbeDays
  /\ probeOut = NullAvail
  /\ QuoteIdle
  /\ SubmitIdle

\* the call returns
ProbeDayAvail ==
  /\ probePc = "in"
  /\ probeOut' = getDayAvail(probeObj, probeDay)
  /\ probePc' = "out"
  /\ UNCHANGED <<probeObj, probeDay>>
  /\ UNCHANGED <<availVars, quoteVars, submitVars>>

ProbeNext == ProbeDayAvail

ProbeSpec == ProbeInit /\ [][ProbeNext]_vars

----------------------------------------------------------------------------
(* The pricing memo evaluated on its own, over the inputs the controls of    *)
(* each form can produce: an unset select is "", a count select gives a      *)
(* digit string or a number.                                                 *)

RoomRow(typeId, sizeId) == [typeId |-> typeId, sizeId |-> sizeId]

OfficeRows ==
  << RoomRow("", "m"), RoomRow("private-office", "xs"),
     RoomRow("private-office", "xl"), RoomRow("bathroom", "m"),
     RoomRow("private-office", "xxl") >>

\* the older form has no bathroom room type
OfficeOldRows == << RoomRow("bathroom", "s"), RoomRow("open-plan", "xl") >>

PromoRows == << RoomRow("", ""), RoomRow("bedroom", "m") >>

\* lists of at most n entries of rows, repetitions allowed, in the order of rows
RECURSIVE ListsFrom(_, _, _)
ListsFrom(rows, from, n) ==
  IF n = 0 THEN { <<>> }
  ELSE { <<>> } \cup
       UNION { { <<rows[i]>> \o r : r \in ListsFrom(rows, i, n - 1) } :
               i \in from..Len(rows) }

\* no appliance, MaxAddOns of one kind, or MaxAddOns of each
ExtrasChoices ==
  { e \in [fridge : {0, MaxAddOns}, freezer : {0, MaxAddOns},
           dishwasher : {0, MaxAddOns}, cupboards : {0, MaxAddOns}] :
      \/ Cardinality({ k \in DOMAIN e : e[k] > 0 }) <= 1
      \/ \A k \in DOMAIN e : e[k] = MaxAddOns }

CleanlinessChoices == { "", "quite-clean", "quite-dirty", "spotless" }

\* products and date together: <<products, selectedDate>>
BillingChoices ==
  { <<"", NoDate>>, <<"bring", Tomorrow(Morning)>>,
    <<"bring", Saturday(Morning)>>,
    <<"provide", Saturday(Morning) + MinsPerDay>> }

\* the kitchens and toilets selects of the older office form:
\* <<kitchensCount, kitchenSizeId, toiletRoomsCount, avgCubicles>>
FacilityChoices == { <<0, "", 0, 1>>, <<2, "", 1, 1>>, <<2, "xl", 2, 3>> }

\* the count selects of the residential form:
\* <<bedrooms, livingRooms, kitchens, bathrooms, utilityRooms>>
CountChoices ==
  { << <<>>, <<>>, <<>>, <<>>, <<>> >>,
    << <<"1">>, <<"1">>, <<"1">>, <<"1">>, <<>> >>,
    << <<"1", "0">>, <<"2">>, <<"1">>, <<"3">>, <<"0">> >> }

AdditionalRoomLabels == << "Garage", "Conservatory", "Dining room" >>
AddOnLabels == << "Fridge", "Oven", "Kitchen cupboards (each)" >>

PricingInit ==
  /\ staffStore = <<>>
  /\ bookingsStore = <<>>
  /\ unavailStore = <<>>
  /\ now = Morning
  /\ scanPc = "pending"
  /\ blockedDates = {}
  /\ availableTimes = <<>>
  /\ timesLoading = FALSE
  /\ loads = <<>>
  /\ lastLoad = NoLoad
  /\ lastScan = "none"
  /\ probePc = "idle"
  /\ probeObj = <<>>
  /\ probeDay = <<>>
  /\ probeOut = NullAvail
  /\ variant \in VARIANTS
  /\ \E c \in CleanlinessChoices, b \in BillingChoices :
       /\ selectedDate = b[2]
       /\ \/ /\ variant = "promo"
             /\ rooms \in ListsFrom(PromoRows, 1, MaxRooms)
             /\ extras \in ExtrasChoices
             /\ form = [initialFormState EXCEPT !.cleanliness = c,
                                                !.products = b[1]]
             /\ kitchensCount = 0 /\ kitchenSizeId = ""
             /\ toiletRoomsCount = 0 /\ avgCubicles = 1
          \/ /\ variant = "office"
             /\ rooms \in ListsFrom(OfficeRows, 1, MaxRooms)
             /\ extras \in ExtrasChoices
             /\ form = [initialFormState EXCEPT !.cleanliness = c,
                                                !.products = b[1]]
             /\ kitchensCount = 0 /\ kitchenSizeId = ""
             /\ toiletRoomsCount = 0 /\ avgCubicles = 1
          \/ /\ variant = "officeOld"
             /\ rooms \in ListsFrom(OfficeOldRows, 1, MaxRooms)
             /\ extras \in ExtrasChoices
             /\ form = [initialFormState EXCEPT !.cleanliness = c,
                                                !.products = b[1]]
             /\ \E k \in FacilityChoices :
                  /\ kitchensCount = k[1] /\ kitchenSizeId = k[2]
                  /\ toiletRoomsCount = k[3] /\ avgCubicles = k[4]
          \/ /\ variant = "home"
             /\ rooms = <<>>
             /\ extras = initialExtras
             /\ \E n \in CountChoices,
                   ar \in SeqsFrom(AdditionalRoomLabels, 1, MaxRooms),
                   ao \in SeqsFrom(AddOnLabels, 1, MaxAddOns) :
                  form = [initialFormState EXCEPT
                            !.cleanliness = c, !.products = b[1],
                            !.bedrooms = n[1], !.livingRooms = n[2],
                            !.kitchens = n[3], !.bathrooms = n[4],
                            !.utilityRooms = n[5],
                            !.additionalRooms = ar, !.addOns = ao]
             /\ kitchensCount = 0 /\ kitchenSizeId = ""
             /\ toiletRoomsCount = 0 /\ avgCubicles = 1
  /\ pricing = NoQuote
  /\ quotePc = "stale"
  /\ SubmitIdle

\* the render that evaluates the memo
ComputePricing ==
  /\ quotePc = "stale"
  /\ pricing' = Pricing(variant, Job)
  /\ quotePc' = "fresh"
  /\ UNCHANGED <<availVars, probeVars, jobVars, submitVars>>

PricingNext == ComputePricing

PricingSpec == PricingInit /\ [][PricingNext]_vars

----------------------------------------------------------------------------
(* Submission Orchestrator: the wizard steps, the controls the browser      *)
(* validates on a submit event, and onSubmit of the four variants with the  *)
(* awaits it goes through.  The documents onSubmit writes are kept in        *)
(* bookingDocs and finances, apart from the stores the availability code     *)
(* reads.                                                                    *)

\* createOrderId() draws one of 90000 ids.  An id matters only through being
\* equal or not to an earlier one, so that a call draws an id already drawn
\* or the first fresh one of ORDER_IDS.
ORDER_IDS == << "LUX10000", "LUX10001" >>

Drawn == { submissions[i].orderId : i \in 1..Len(submissions) }

createOrderId ==
  Drawn \cup { ORDER_IDS[k] : k \in { j \in 1..Len(ORDER_IDS) :
                                        \A h \in 1..(j - 1) :
                                          ORDER_IDS[h] \in Drawn } }

ContactFields == { "customerName", "customerEmail", "customerPhone" }
AddressFields == { "addressLine1", "town", "postcode" }

\* the index of the last wizard step, where the submit button is rendered
LastStep(v) ==
  CASE v = "promo" -> 2
    [] v = "office" -> 3
    [] v = "officeOld" -> 5
    [] v = "home" -> 4

\* the steps that render the access, products and cleanliness controls
AccessStep(v) ==
  CASE v = "promo" -> 1
    [] v = "office" -> 3
    [] v = "officeOld" -> 5
    [] v = "home" -> 1

ProductsStep(v) ==
  CASE v = "promo" -> 2
    [] v = "office" -> 2
    [] v = "officeOld" -> 4
    [] v = "home" -> 4

CleanlinessSteps(v) ==
  CASE v = "promo" -> {}
    [] v = "office" -> {0}
    [] v = "officeOld" -> {0}
    [] v = "home" -> {2}

\* the step that renders plain address inputs (the older forms)
AddressSteps(v) ==
  CASE v = "promo" -> {}
    [] v = "office" -> {}
    [] v = "officeOld" -> {5}
    [] v = "home" -> {0}

\* the pages that mount AddressLookup inside the form
HasAddressLookup(v) == v \in {"promo", "office"}

\* the options of the access select, and the one that shows the keyLocation
\* input
ACCESS_OPTIONS(v) ==
  IF v \in {"promo", "office"} THEN {"let-in", "alternative"}
  ELSE {"home", "key"}

KeyLocationShownFor(v) ==
  IF v \in {"promo", "office"} THEN "alternative" ELSE "key"

\* the access value canNext compares with before asking for keyLocation
KeyLocationAskedFor(v) == IF v = "promo" THEN "alternative" ELSE "key"

\* the names of the mounted controls that carry `required` and are empty
MissingRequired(v, st, f) ==
  { k \in ContactFields : f[k] = "" }
    \cup (IF st = AccessStep(v) /\ f.access = "" THEN {"access"} ELSE {})
    \cup (IF st = AccessStep(v) /\ f.access = KeyLocationShownFor(v)
             /\ f.keyLocation = ""
          THEN {"keyLocation"} ELSE {})
    \cup (IF st = ProductsStep(v) /\ v \in {"promo", "office"}
             /\ f.products = ""
          THEN {"products"} ELSE {})
    \cup (IF st \in CleanlinessSteps(v) /\ f.cleanliness = ""
          THEN {"cleanliness"} ELSE {})
    \cup (IF v = "home" /\ st \in CleanlinessSteps(v)
          THEN { k \in {"bedrooms", "livingRooms", "kitchens", "bathrooms",
                        "utilityRooms"} : f[k] = <<>> }
          ELSE {})

canNext(v, st, f, rs, kc, ks) ==
  CASE v = "promo" ->
         IF st = 0 THEN rs[1].typeId # "" /\ rs[1].sizeId # ""
         ELSE IF st = 1
         THEN f.access # ""
              /\ (f.access # KeyLocationAskedFor(v) \/ f.keyLocation # "")
         ELSE TRUE
    [] v = "office" ->
         IF st = 0 THEN f.cleanliness # ""
         ELSE IF st = 1
         THEN \A i \in 1..Len(rs) : rs[i].typeId # "" /\ rs[i].sizeId # ""
         ELSE IF st = 2 THEN TRUE
         ELSE IF st = 3
         THEN f.access # ""
              /\ (f.access # KeyLocationAskedFor(v) \/ f.keyLocation # "")
         ELSE TRUE
    [] v = "officeOld" ->
         IF st = 0 THEN f.cleanliness # ""
         ELSE IF st = 1
         THEN \A i \in 1..Len(rs) : rs[i].typeId # "" /\ rs[i].sizeId # ""
         ELSE IF st = 2 THEN kc = 0 \/ ks # ""
         ELSE IF st \in {3, 4} THEN TRUE
         ELSE IF st = 5
         THEN f.access # ""
              /\ (f.access # KeyLocationAskedFor(v) \/ f.keyLocation # "")
         ELSE TRUE
    [] v = "home" -> TRUE

\* Math.min(a, b) on step indices
MinStep(a, b) == IF a < b THEN a ELSE b

\* the message of the first check of onSubmit that fails, "" if none does
Rejection(v, date, time, f) ==
  IF date = NoDate \/ time = <<>> THEN "Please select date and time."
  ELSE IF \E k \in ContactFields : f[k] = ""
  THEN "Please fill name, email, and phone."
  ELSE IF HasAddressLookup(v) /\ \E k \in AddressFields : f[k] = ""
  THEN IF v = "promo"
       THEN "Please enter your address (line 1, town/city and postcode)."
       ELSE "Please select or enter the site address."
  ELSE IF v = "promo" /\ f.products = ""
  THEN "Please select who will provide the cleaning products."
  ELSE ""

\* staffPayTotal > 0: the rate and the multiplier are positive
StaffPayDue(p) == p.estimatedHours # Zero

\* String(n).padStart(2, '0')
padStart2(str) == IF Len(str) < 2 THEN << "0" >> \o str ELSE str

\* addHoursToTime(hhmm, hoursFloat), for hhmm that starts with digits
addHoursToTime(hhmm, hoursFloat) ==
  LET parts == SplitColon(hhmm)
      mStr == IF Len(parts) >= 2 /\ parts[2] # <<>> THEN parts[2]
              ELSE << "0" >>
      minutes == ParseInt(parts[1]).v * 60 + ParseInt(mStr).v
                   + Round(DblMul(hoursFloat, FromInt(60)))
      endH == minutes \div 60
      endM == minutes % 60
  IN  padStart2(IntToStr(endH)) \o << ":" >> \o padStart2(IntToStr(endM))

\* form.serviceType || 'One Room Clean'; no control of the promotional page
\* changes the field, the current office page stores a fixed one
serviceType(v) == IF v = "promo" THEN "One Room Clean" ELSE "Office Cleaning"

\* st.includes('deep') on the lower-cased service type
isDeep(st) == st \in {"Deep clean", "Deep Clean", "deep clean"}

\* getStaffRateForJob({ serviceType, date })
getStaffRateForJob(st, date) ==
  IF isDeep(st) THEN (IF isWeekend(date) THEN FromInt(23) ELSE FromInt(21))
  ELSE (IF isWeekend(date) THEN FromInt(17) ELSE FromInt(15))

\* const STAFF_RATE = 12.21 of the current office page
STAFF_RATE == Dec(1221, 100)

\* the staff rate onSubmit multiplies the hours by
staffRate(v, date) ==
  IF v = "office" THEN STAFF_RATE
  ELSE getStaffRateForJob(serviceType(v), date)

\* Number(x.toFixed(2)): the hundredth nearest to the exact value of x, the
\* one above when x is half way, read back as a number
toFixed2(x) == Dec(Nearest[BigMulSmall[x, 100]], 100)

\* (Number(pricing.estimatedHours) || 0) * staffRate * staffMultiplier
staffPayTotal(v, p, date) ==
  DblMul(DblMul(p.estimatedHours, staffRate(v, date)),
         IF p.teamApplied THEN Two ELSE One)

\* the first await of onSubmit
FirstAwait(v, zap) == IF v = "home" /\ zap THEN "webhook" ELSE "setDoc"

InFlight(s) == s.pc \in {"setDoc", "webhook", "income", "expense"}

\* the record of one onSubmit call: the values of the render it closed over,
\* where it stands, the downstream steps it has attempted and those that
\* failed.  draft, overlapped and alertBefore are history: the form reset
\* count at the call, whether an earlier call of the same draft was still in
\* flight, and the latest alert the customer had seen by then.
Submission(v, id, pc) ==
  With(IF HasAddressLookup(v) THEN Pricing(v, Job) ELSE NoQuote, LAMBDA p :
    [orderId |-> id, pc |-> pc, form |-> form, date |-> selectedDate,
     time |-> selectedTime,
     pricing |-> p,
     staffPayDue |-> StaffPayDue(p),
     wrote |-> FALSE, attempted |-> {}, failed |-> {},
     draft |-> draft, alertBefore |-> lastAlert,
     overlapped |-> \E i \in 1..Len(submissions) :
                       /\ InFlight(submissions[i])
                       /\ submissions[i].draft = draft])

\* the characters of a phone number typed in this model
PhoneChars(p) ==
  IF p = "" THEN <<>>
  ELSE << "0", "7", "0", "0", "0", "0", "0", "0", "0", "0", "0" >>

\* toE164UK(form.customerPhone) || form.customerPhone
normalisedPhone(p) ==
  IF toE164UK(PhoneChars(p)) = NullString THEN PhoneChars(p)
  ELSE toE164UK(PhoneChars(p))

\* the document setDoc stores under bookings/<orderId>
BookingDocument(v, s) ==
  [orderId |-> s.orderId,
   customerName |-> s.form.customerName,
   customerEmail |-> s.form.customerEmail,
   customerPhone |-> IF HasAddressLookup(v)
                     THEN normalisedPhone(s.form.customerPhone)
                     ELSE PhoneChars(s.form.customerPhone),
   addressLine1 |-> s.form.addressLine1, town |-> s.form.town,
   postcode |-> s.form.postcode,
   products |-> s.form.products,
   access |-> s.form.access, accessNotes |-> s.form.keyLocation,
   date |-> ymd(s.date), startTime |-> s.time,
   draft |-> s.draft]

storeVars == <<staffStore, bookingsStore, unavailStore, now, scanPc,
               blockedDates, lastScan>>
loadVars == <<selectedDate, availableTimes, timesLoading, loads, lastLoad>>
settingVars == <<variant, kitchensCount, kitchenSizeId, toiletRoomsCount,
                 avgCubicles, pricing, quotePc, zapConfigured>>
fixedVars == <<storeVars, probeVars, settingVars>>
pageVars == <<form, rooms, extras, step, selectedTime, lookupChosen,
              bookingComplete, loadVars>>
effectVars == <<submissions, bookingDocs, webhooks, finances, consoleErrors,
                lastAlert, draft>>

\* what the customer has typed before the run starts: the contact details,
\* with or without the phone number
ContactProfiles ==
  { [initialFormState EXCEPT !.customerName = "Ada",
                             !.customerEmail = "ada@example.org",
                             !.customerPhone = p] :
      p \in {"", "07000000000"} }

\* the addresses the lookup offers: the API string has several parts, or one
LookupAddresses ==
  { [line1 |-> "1 High Street", town |-> "Manchester", postcode |-> "M1 1AA"],
    [line1 |-> "1 High Street", town |-> "", postcode |-> "M1 1AA"] }

SubmitInit ==
  /\ staffStore = <<>>
  /\ bookingsStore = <<>>
  /\ unavailStore = <<>>
  /\ now = Morning
  /\ scanPc = "done"
  /\ blockedDates = {}
  /\ lastScan = "ok"
  /\ selectedDate \in {NoDate, Tomorrow(Morning)}
  /\ availableTimes = IF selectedDate = NoDate THEN <<>> ELSE << IntToStr(9) >>
  /\ timesLoading = FALSE
  /\ loads = <<>>
  /\ lastLoad = NoLoad
  /\ probePc = "idle"
  /\ probeObj = <<>>
  /\ probeDay = <<>>
  /\ probeOut = NullAvail
  /\ variant \in VARIANTS
  /\ rooms = IF variant = "promo" THEN << RoomRow("", "") >> ELSE <<>>
  /\ extras = initialExtras
  /\ form \in ContactProfiles
  /\ kitchensCount = 0
  /\ kitchenSizeId = ""
  /\ toiletRoomsCount = 0
  /\ avgCubicles = 1
  /\ pricing = NoQuote
  /\ quotePc = "idle"
  /\ step = 0
  /\ selectedTime = <<>>
  /\ lookupChosen = FALSE
  /\ bookingComplete = FALSE
  /\ zapConfigured \in (IF variant = "home" THEN BOOLEAN ELSE {FALSE})
  /\ submissions = <<>>
  /\ bookingDocs = <<>>
  /\ webhooks = {}
  /\ finances = {}
  /\ consoleErrors = {}
  /\ lastAlert = ""
  /\ browserReport = FALSE
  /\ draft = 0

\* the form is on screen (the thank-you layout replaces it)
FormShown == ~bookingComplete

\* The customer changes the form and moves between the steps only while no
\* call of onSubmit has got past its checks; after that the customer only
\* activates submit buttons.
Editing == FormShown /\ submissions = <<>>

\* a contact input is typed into
TypeContact ==
  /\ Editing
  /\ \E k \in ContactFields, f \in ContactProfiles :
       /\ form[k] = ""
       /\ f[k] # ""
       /\ form' = [form EXCEPT ![k] = f[k]]
  /\ UNCHANGED <<rooms, extras, step, selectedTime, lookupChosen,
                 bookingComplete, loadVars>>
  /\ UNCHANGED <<fixedVars, effectVars, browserReport>>

\* a time button is clicked
SelectTime ==
  /\ Editing
  /\ \E i \in 1..Len(availableTimes) :
       /\ selectedTime # availableTimes[i]
       /\ selectedTime' = availableTimes[i]
  /\ UNCHANGED <<form, rooms, extras, step, lookupChosen, bookingComplete,
                 loadVars>>
  /\ UNCHANGED <<fixedVars, effectVars, browserReport>>

\* AddressLookup: an address of the list is picked
handleAddressSelect ==
  /\ Editing
  /\ HasAddressLookup(variant)
  /\ ~lookupChosen
  /\ \E a \in LookupAddresses :
       form' = [form EXCEPT !.addressLine1 = a.line1, !.town = a.town,
                            !.postcode = a.postcode]
  /\ lookupChosen' = TRUE
  /\ UNCHANGED <<rooms, extras, step, selectedTime, bookingComplete,
                 loadVars>>
  /\ UNCHANGED <<fixedVars, effectVars, browserReport>>

\* the plain address inputs of the older forms are typed into: all three,
\* or all but the postcode
TypeAddress ==
  /\ Editing
  /\ step \in AddressSteps(variant)
  /\ form.addressLine1 = ""
  /\ \E pc \in {"", "M1 1AA"} :
       form' = [form EXCEPT !.addressLine1 = "1 High Street",
                            !.town = "Manchester", !.postcode = pc]
  /\ UNCHANGED <<rooms, extras, step, selectedTime, lookupChosen,
                 bookingComplete, loadVars>>
  /\ UNCHANGED <<fixedVars, effectVars, browserReport>>

\* the room selects of the promotional page
SelectRoom ==
  /\ Editing
  /\ variant = "promo"
  /\ step = 0
  /\ rooms # << RoomRow("bedroom", "m") >>
  /\ rooms' = << RoomRow("bedroom", "m") >>
  /\ UNCHANGED <<form, extras, step, selectedTime, lookupChosen,
                 bookingComplete, loadVars>>
  /\ UNCHANGED <<fixedVars, effectVars, browserReport>>

SelectCleanliness ==
  /\ Editing
  /\ variant # "home"          \* its Next button does not look at the form
  /\ step \in CleanlinessSteps(variant)
  /\ form.cleanliness = ""
  /\ form' = [form EXCEPT !.cleanliness = "average"]
  /\ UNCHANGED <<rooms, extras, step, selectedTime, lookupChosen,
                 bookingComplete, loadVars>>
  /\ UNCHANGED <<fixedVars, effectVars, browserReport>>

\* the products select; its empty option can be chosen again
SelectProducts ==
  /\ Editing
  /\ HasAddressLookup(variant)  \* the older forms never look at products
  /\ step = ProductsStep(variant)
  /\ \E p \in {"", "bring"} :
       /\ p # form.products
       /\ form' = [form EXCEPT !.products = p]
  /\ UNCHANGED <<rooms, extras, step, selectedTime, lookupChosen,
                 bookingComplete, loadVars>>
  /\ UNCHANGED <<fixedVars, effectVars, browserReport>>

\* the access select; its empty option is disabled
SelectAccess ==
  /\ Editing
  /\ step = AccessStep(variant)
  /\ \E a \in ACCESS_OPTIONS(variant) :
       /\ a # form.access
       /\ form' = [form EXCEPT !.access = a]
  /\ UNCHANGED <<rooms, extras, step, selectedTime, lookupChosen,
                 bookingComplete, loadVars>>
  /\ UNCHANGED <<fixedVars, effectVars, browserReport>>

\* the keyLocation input, typed into or cleared
TypeKeyLocation ==
  /\ Editing
  /\ step = AccessStep(variant)
  /\ form.access = KeyLocationShownFor(variant)
  /\ form' = [form EXCEPT
                !.keyLocation = IF form.keyLocation = "" THEN "lockbox" ELSE ""]
  /\ UNCHANGED <<rooms, extras, step, selectedTime, lookupChosen,
                 bookingComplete, loadVars>>
  /\ UNCHANGED <<fixedVars, effectVars, browserReport>>

\* the Next button: goNext (nextStep on the home form)
goNext ==
  /\ Editing
  /\ step < LastStep(variant)
  /\ canNext(variant, step, form, rooms, kitchensCount, kitchenSizeId)
  /\ IF variant = "office" /\ step = 2 /\ form.products = ""
     THEN browserReport' = TRUE /\ step' = step
     ELSE /\ step' = MinStep(LastStep(variant), step + 1)
          /\ UNCHANGED browserReport
  /\ UNCHANGED <<form, rooms, extras, selectedTime, lookupChosen,
                 bookingComplete, loadVars>>
  /\ UNCHANGED <<fixedVars, effectVars>>

\* the Back button: goBack (prevStep on the home form)
goBack ==
  /\ Editing
  /\ step > 0
  /\ step' = step - 1
  /\ UNCHANGED <<form, rooms, extras, selectedTime, lookupChosen,
                 bookingComplete, loadVars>>
  /\ UNCHANGED <<fixedVars, effectVars, browserReport>>

\* A submit button of the form is activated: the browser checks the mounted
\* required controls, then onSubmit runs up to its first await.
SubmitEvent ==
  IF MissingRequired(variant, step, form) # {}
  THEN /\ browserReport' = TRUE
       /\ UNCHANGED effectVars
  ELSE /\ UNCHANGED browserReport
       /\ LET msg == Rejection(variant, selectedDate, selectedTime, form)
          IN  IF msg # ""
              THEN /\ lastAlert' = msg
                   /\ UNCHANGED <<submissions, bookingDocs, webhooks,
                                  finances, consoleErrors, draft>>
              ELSE /\ Len(submissions) < MaxSubmits
                   /\ \E id \in createOrderId :
                        submissions' =
                          Append(submissions,
                                 Submission(variant, id,
                                            FirstAwait(variant,
                                                       zapConfigured)))
                   /\ UNCHANGED <<bookingDocs, webhooks, finances,
                                  consoleErrors, lastAlert, draft>>

\* the button of the last step (type="submit")
ClickSubmit ==
  /\ FormShown
  /\ step = LastStep(variant)
  /\ SubmitEvent
  /\ UNCHANGED <<pageVars, fixedVars>>

\* the "Change" button of AddressLookup: it has no type, so that inside the
\* form it is a submit button; its onClick clears the lookup's selection
ClickChange ==
  /\ FormShown
  /\ HasAddressLookup(variant)
  /\ lookupChosen
  /\ lookupChosen' = FALSE
  /\ SubmitEvent
  /\ UNCHANGED <<form, rooms, extras, step, selectedTime, bookingComplete,
                 loadVars>>
  /\ UNCHANGED fixedVars

\* the tail of onSubmit on the promotional and current office pages: the
\* form is reset and the thank-you layout shown; the effect on selectedDate
\* runs loadTimes, which clears the times
Finish ==
  /\ form' = initialFormState
  /\ rooms' = IF variant = "promo" THEN << RoomRow("", "") >> ELSE <<>>
  /\ extras' = initialExtras
  /\ selectedDate' = NoDate
  /\ selectedTime' = <<>>
  /\ step' = 0
  /\ bookingComplete' = TRUE
  /\ draft' = draft + 1
  /\ StartLoad(NoDate, blockedDates)
  /\ UNCHANGED lookupChosen

\* a handler that undoes the booking and tells the customer
CaughtAndRolledBack(i, message) ==
  /\ consoleErrors' = consoleErrors \cup {[message |-> message, call |-> i]}
  /\ bookingDocs' = [k \in DOMAIN bookingDocs \ {submissions[i].orderId} |->
                       bookingDocs[k]]
  /\ lastAlert' = "Booking failed"

\* a catch block of onSubmit: the rejection is logged, and that is all
Caught(i, message) ==
  /\ consoleErrors' = consoleErrors \cup {[message |-> message, call |-> i]}
  /\ UNCHANGED <<bookingDocs, lastAlert>>

\* await setDoc(...) settles
SetDocSettles ==
  \E i \in 1..Len(submissions), ok \in BOOLEAN :
    LET s == submissions[i] IN
    /\ s.pc = "setDoc"
    /\ IF ok
       THEN /\ bookingDocs' =
                 [k \in DOMAIN bookingDocs \cup {s.orderId} |->
                    IF k = s.orderId THEN BookingDocument(variant, s)
                    ELSE bookingDocs[k]]
            /\ IF HasAddressLookup(variant)
               THEN /\ submissions' = [submissions EXCEPT
                                         ![i].pc = "webhook", ![i].wrote = TRUE]
                    /\ UNCHANGED lastAlert
               ELSE /\ submissions' = [submissions EXCEPT
                                         ![i].pc = "done", ![i].wrote = TRUE]
                    /\ lastAlert' = "Booking submitted!"
       ELSE /\ submissions' = [submissions EXCEPT
                                 ![i].pc = "rejected",
                                 ![i].failed = @ \cup {"setDoc"}]
            /\ UNCHANGED <<bookingDocs, lastAlert>>
    /\ UNCHANGED <<webhooks, finances, consoleErrors, draft, browserReport>>
    /\ UNCHANGED <<pageVars, fixedVars>>

\* await fetch(<webhook>) settles; a rejection is caught and logged
WebhookSettles ==
  \E i \in 1..Len(submissions), ok \in BOOLEAN :
    LET s == submissions[i] IN
    /\ s.pc = "webhook"
    /\ submissions' = [submissions EXCEPT
                         ![i].pc = IF variant = "home" THEN "setDoc"
                                   ELSE "income",
                         ![i].attempted = @ \cup {"webhook"},
                         ![i].failed = IF ok THEN @ ELSE @ \cup {"webhook"}]
    /\ IF ok
       THEN /\ webhooks' = webhooks \cup {[orderId |-> s.orderId, call |-> i]}
            /\ UNCHANGED <<consoleErrors, bookingDocs, lastAlert>>
       ELSE /\ Caught(i, IF variant = "home" THEN "Zapier post failed"
                         ELSE "Failed to send Zapier webhook for booking")
            /\ UNCHANGED webhooks
    /\ UNCHANGED <<finances, draft, browserReport>>
    /\ UNCHANGED <<pageVars, fixedVars>>

\* await addDoc(financesRef, { type: 'Income', ... }) settles; a rejection
\* leaves the try block
IncomeSettles ==
  \E i \in 1..Len(submissions), ok \in BOOLEAN :
    LET s == submissions[i] IN
    /\ s.pc = "income"
    /\ IF ok
       THEN /\ finances' = finances \cup {[type |-> "Income",
                                            orderId |-> s.orderId,
                                            amount |-> s.pricing.totalPrice,
                                            call |-> i]}
            /\ UNCHANGED <<consoleErrors, bookingDocs, lastAlert>>
            /\ IF s.staffPayDue
               THEN /\ submissions' = [submissions EXCEPT
                                         ![i].pc = "expense",
                                         ![i].attempted = @ \cup {"income"}]
                    /\ UNCHANGED <<pageVars, draft>>
               ELSE /\ submissions' = [submissions EXCEPT
                                         ![i].pc = "done",
                                         ![i].attempted = @ \cup {"income"}]
                    /\ Finish
       ELSE /\ Caught(i, "Failed to log finances for booking")
            /\ submissions' = [submissions EXCEPT
                                 ![i].pc = "done",
                                 ![i].attempted = @ \cup {"income"},
                                 ![i].failed = @ \cup {"income"}]
            /\ UNCHANGED finances
            /\ Finish
    /\ UNCHANGED <<webhooks, browserReport>>
    /\ UNCHANGED fixedVars

\* await addDoc(financesRef, { type: 'Expense', ... }) settles
ExpenseSettles ==
  \E i \in 1..Len(submissions), ok \in BOOLEAN :
    LET s == submissions[i] IN
    /\ s.pc = "expense"
    /\ submissions' = [submissions EXCEPT
                         ![i].pc = "done",
                         ![i].attempted = @ \cup {"expense"},
                         ![i].failed = IF ok THEN @ ELSE @ \cup {"expense"}]
    /\ IF ok
       THEN /\ finances' = finances \cup {[type |-> "Expense",
                                            orderId |-> s.orderId,
                                            amount |->
                                              toFixed2(staffPayTotal(
                                                variant, s.pricing, s.date)),
                                            call |-> i]}
            /\ UNCHANGED <<consoleErrors, bookingDocs, lastAlert>>
       ELSE /\ Caught(i, "Failed to log finances for booking")
            /\ UNCHANGED finances
    /\ Finish
    /\ UNCHANGED <<webhooks, browserReport>>
    /\ UNCHANGED fixedVars

SubmitNext ==
  \/ TypeContact
  \/ SelectTime
  \/ handleAddressSelect
  \/ TypeAddress
  \/ SelectRoom
  \/ SelectCleanliness
  \/ SelectProducts
  \/ SelectAccess
  \/ TypeKeyLocation
  \/ goNext
  \/ goBack
  \/ ClickSubmit
  \/ ClickChange
  \/ SetDocSettles
  \/ WebhookSettles
  \/ IncomeSettles
  \/ ExpenseSettles

SubmitSpec == SubmitInit /\ [][SubmitNext]_vars

----------------------------------------------------------------------------
(* onSubmit of the promotional and current office pages on its own: the     *)
(* form is filled in and stands at its last step; the customer activates    *)
(* submit buttons and the awaits settle either way.                         *)

CompleteForm(v, a) ==
  [initialFormState EXCEPT
     !.customerName = "Ada", !.customerEmail = "ada@example.org",
     !.customerPhone = "07000000000",
     !.addressLine1 = "1 High Street", !.town = "Manchester",
     !.postcode = "M1 1AA",
     !.cleanliness = IF v = "office" THEN "average" ELSE "",
     !.products = "bring",
     !.access = a,
     !.keyLocation = IF a = KeyLocationShownFor(v) THEN "lockbox" ELSE ""]

DownstreamInit ==
  /\ staffStore = <<>>
  /\ bookingsStore = <<>>
  /\ unavailStore = <<>>
  /\ now = Morning
  /\ scanPc = "done"
  /\ blockedDates = {}
  /\ lastScan = "ok"
  /\ selectedDate = Tomorrow(Morning)
  /\ availableTimes = << IntToStr(9) >>
  /\ timesLoading = FALSE
  /\ loads = <<>>
  /\ lastLoad = NoLoad
  /\ probePc = "idle"
  /\ probeObj = <<>>
  /\ probeDay = <<>>
  /\ probeOut = NullAvail
  /\ variant \in { v \in VARIANTS : HasAddressLookup(v) }
  /\ rooms = IF variant = "promo" THEN << RoomRow("bedroom", "m") >> ELSE <<>>
  /\ extras = initialExtras
  /\ \E a \in ACCESS_OPTIONS(variant) : form = CompleteForm(variant, a)
  /\ kitchensCount = 0
  /\ kitchenSizeId = ""
  /\ toiletRoomsCount = 0
  /\ avgCubicles = 1
  /\ pricing = NoQuote
  /\ quotePc = "idle"
  /\ step = LastStep(variant)
  /\ selectedTime = IntToStr(9)
  /\ lookupChosen = TRUE
  /\ bookingComplete = FALSE
  /\ zapConfigured = FALSE
  /\ submissions = <<>>
  /\ bookingDocs = <<>>
  /\ webhooks = {}
  /\ finances = {}
  /\ consoleErrors = {}
  /\ lastAlert = ""
  /\ browserReport = FALSE
  /\ draft = 0

DownstreamNext ==
  \/ ClickSubmit
  \/ ClickChange
  \/ SetDocSettles
  \/ WebhookSettles
  \/ IncomeSettles
  \/ ExpenseSettles

DownstreamSpec == DownstreamInit /\ [][DownstreamNext]_vars


TypeOK ==
  /\ scanPc \in {"pending", "done"}
  /\ timesLoading \in BOOLEAN
  /\ \A i \in 1..Len(availableTimes) :
       \E j \in 1..Len(ALL_TIMES) : availableTimes[i] = ALL_TIMES[j]

----------------------------------------------------------------------------
(* Vocabulary of the properties, read off the stored documents directly.   *)

GridHours == FIRST_HOUR..LAST_HOUR

\* the set of labels on offer and the hours they denote
Offered == { availableTimes[i] : i \in 1..Len(availableTimes) }
OfferedHours == { h \in 0..(HoursPerDay - 1) : IntToStr(h) \in Offered }

\* the stamp of day d at hour h
At(d, h) == d * MinsPerDay + h * MinsPerHour

\* the run's date as a day number
LoadDay == lastLoad.date \div MinsPerDay

\* the override document of day d marks hour h as booked
Marked(d, h) ==
  /\ d \in DOMAIN unavailStore
  /\ LET doc == unavailStore[d]
         key == IntToStr(h) \o <<":", "0", "0">>
     IN  IF doc.hasBookedTimeSlots
         THEN key \in DOMAIN doc.bookedTimeSlots /\ doc.bookedTimeSlots[key]
         ELSE key \in DOMAIN doc.fields /\ doc.fields[key]

CapitalizedDays ==
  << <<"M", "o", "n", "d", "a", "y">>,
     <<"T", "u", "e", "s", "d", "a", "y">>,
     <<"W", "e", "d", "n", "e", "s", "d", "a", "y">>,
     <<"T", "h", "u", "r", "s", "d", "a", "y">>,
     <<"F", "r", "i", "d", "a", "y">>,
     <<"S", "a", "t", "u", "r", "d", "a", "y">>,
     <<"S", "u", "n", "d", "a", "y">> >>

DayIndex(d) == (d % Len(WeekdayLong)) + 1

\* the entry that counts for staff document s on day d: the one under the
\* lower-case key unless that key holds nothing, then the capitalized one
EntryOf(s, d) ==
  LET lower == WeekdayLong[DayIndex(d)]
      upper == CapitalizedDays[DayIndex(d)]
      m == s.availability
  IN  IF lower \in DOMAIN m /\ m[lower].kind # "null" THEN m[lower]
      ELSE IF upper \in DOMAIN m THEN m[upper]
      ELSE DayUndefined

\* s is an active staff member with available = true on day d
Works(s, d) ==
  /\ s.active # "false"
  /\ EntryOf(s, d).kind = "object"
  /\ EntryOf(s, d).available

Working(d) == { k \in 1..Len(staffStore) : Works(staffStore[k], d) }

\* a clock string of the rosters and bookings above, in minutes of the day
ClockMins(t) ==
  CASE t = T0900 -> 540 [] t = S900 -> 540 [] t = T1000 -> 600
    [] t = T1130 -> 690 [] t = T1200 -> 720 [] t = T1300 -> 780
    [] t = T1400 -> 840 [] t = T1700 -> 1020 [] t = T1800 -> 1080

WindowStart(s, d) ==
  LET e == EntryOf(s, d)
  IN  IF e.startTime # <<>> THEN ClockMins(e.startTime)
      ELSE IF e.from # <<>> THEN ClockMins(e.from) ELSE 420
WindowEnd(s, d) ==
  LET e == EntryOf(s, d)
  IN  IF e.endTime # <<>> THEN ClockMins(e.endTime)
      ELSE IF e.to # <<>> THEN ClockMins(e.to) ELSE 1200

NoticeHours(s) ==
  IF s.minNoticeHours.kind = "number" THEN s.minNoticeHours.v ELSE 12
BufferMins(s) ==
  IF s.travelBufferMins.kind = "number" THEN s.travelBufferMins.v ELSE 30

Min(S) == CHOOSE x \in S : \A y \in S : x <= y

\* the minimum notice over the staff working on day d
DayNotice(d) == Min({ NoticeHours(staffStore[k]) : k \in Working(d) })

\* the bookings of day d that carry both times
DayBookings(d) ==
  { j \in 1..Len(bookingsStore) :
      /\ bookingsStore[j].date = d
      /\ bookingsStore[j].startTime # <<>>
      /\ bookingsStore[j].endTime # <<>> }

\* hour h of day d lies in the buffered window of booking j for staff s
InBuffer(s, j, h) ==
  /\ ClockMins(bookingsStore[j].startTime) - BufferMins(s) <= h * 60
  /\ h * 60 < ClockMins(bookingsStore[j].endTime) + BufferMins(s)

\* staff member s can take hour h of day d
CanTake(s, d, h) ==
  /\ Works(s, d)
  /\ WindowStart(s, d) <= h * 60
  /\ h * 60 < WindowEnd(s, d)
  /\ \A j \in DayBookings(d) : ~InBuffer(s, j, h)

TooSoon(d, h) == Working(d) # {} /\ At(d, h) < now + DayNotice(d) * 60

----------------------------------------------------------------------------
(* C1: loadTimes returns only hour labels of the grid 7..20, and never an  *)
(* hour that the date's override document marks as booked, in the          *)
(* bookedTimeSlots form or in the legacy per-hour form.                    *)
C1_GridAndOverride ==
  /\ \A i \in 1..Len(availableTimes) :
       \E h \in GridHours : availableTimes[i] = IntToStr(h)
  /\ lastLoad.outcome = "ok" =>
       \A h \in OfferedHours : ~Marked(LoadDay, h)

\* a finished run on a date whose legacy fields mark an hour, with slots
\* on offer on both sides of it
C1_Witness ==
  /\ lastLoad.outcome = "ok"
  /\ LoadDay \in DOMAIN unavailStore
  /\ ~unavailStore[LoadDay].hasBookedTimeSlots
  /\ \E h \in GridHours :
       Marked(LoadDay, h) /\ {h - 1, h + 1} \subseteq OfferedHours

(* C2: one staff member working 09:00-17:00 with a 30 minute travel        *)
(* buffer, one booking 12:00-13:00, no override, notice satisfied: the     *)
(* filter offers exactly 9, 10, 11, 14, 15, 16.                            *)
C2_Scenario ==
  /\ lastLoad.outcome = "ok"
  /\ Len(staffStore) = 1
  /\ Works(staffStore[1], LoadDay)
  /\ WindowStart(staffStore[1], LoadDay) = 540
  /\ WindowEnd(staffStore[1], LoadDay) = 1020
  /\ BufferMins(staffStore[1]) = 30
  /\ Len(bookingsStore) = 1
  /\ DayBookings(LoadDay) = {1}
  /\ ClockMins(bookingsStore[1].startTime) = 720
  /\ ClockMins(bookingsStore[1].endTime) = 780
  /\ LoadDay \notin DOMAIN unavailStore
  /\ \A h \in GridHours : ~TooSoon(LoadDay, h)

C2_BufferExample ==
  C2_Scenario =>
    availableTimes = << <<"9">>, <<"1", "0">>, <<"1", "1">>, <<"1", "4">>,
                        <<"1", "5">>, <<"1", "6">> >>

C2_Witness == C2_Scenario /\ Len(availableTimes) = 6

(* C3: an hour that passes the override and notice checks is offered if    *)
(* and only if at least one active staff member working that weekday has   *)
(* the hour in their own window and no booking of the date within their    *)
(* own travel buffer; the list is in ascending hour order.                 *)
\* the hour an offered label denotes
HourOf(label) == CHOOSE h \in GridHours : IntToStr(h) = label

Bookable(d, h) ==
  /\ ~Marked(d, h)
  /\ ~TooSoon(d, h)
  /\ \E k \in 1..Len(staffStore) : CanTake(staffStore[k], d, h)

C3_AtLeastOneStaff ==
  lastLoad.outcome = "ok" =>
    /\ OfferedHours = { h \in GridHours : Bookable(LoadDay, h) }
    /\ Len(availableTimes) = Cardinality(OfferedHours)
    /\ \A i \in 1..(Len(availableTimes) - 1) :
         HourOf(availableTimes[i]) < HourOf(availableTimes[i + 1])

\* an offered hour that the first working staff member cannot take because
\* of a booking, and a later one can
C3_Witness ==
  /\ lastLoad.outcome = "ok"
  /\ \E h \in OfferedHours : \E k \in Working(LoadDay) :
       /\ \A i \in Working(LoadDay) : k <= i
       /\ \E j \in DayBookings(LoadDay) : InBuffer(staffStore[k], j, h)
       /\ \E i \in Working(LoadDay) : CanTake(staffStore[i], LoadDay, h)

C5_EmptyResult ==
  /\ lastLoad.outcome \in {"nodate", "blocked", "ok", "failed"}
  /\ \/ lastLoad.date = NoDate
     \/ LoadDay \in lastLoad.blocked
     \/ lastLoad.outcome = "ok" /\ Working(LoadDay) = {}
  => availableTimes = <<>> /\ timesLoading = FALSE

\* a finished run on a day for which the roster has documents but nobody
\* who works
C5_Witness ==
  /\ lastLoad.outcome = "ok"
  /\ staffStore # <<>>
  /\ \E k \in 1..Len(staffStore) : staffStore[k].active # "false"
  /\ Working(LoadDay) = {}

(* C6: when one of the three reads of loadTimes fails, the slot list       *)
(* becomes empty and the loading indicator is cleared; the run ends there. *)
C6_FailClosed ==
  lastLoad.outcome = "failed" =>
    /\ availableTimes = <<>>
    /\ timesLoading = FALSE
    /\ loads = <<>>
    /\ lastLoad.failedAt \in {"unavailability", "bookings", "staff"}

\* the roster read fails after the two other reads succeeded
C6_Witness ==
  /\ lastLoad.outcome = "failed"
  /\ lastLoad.failedAt = "staff"
  /\ \E h \in GridHours : Bookable(LoadDay, h)

(* C7: for every date d of the window [today - 30, today + 60) the scanner *)
(* blocks d if and only if d is before today, or no active staff member is *)
(* available on d's weekday, or 20:00 on d is earlier than now + the       *)
(* minimum minNoticeHours over the active staff (12 without active staff); *)
(* no date outside the window is blocked.                                  *)
TodayDay == now \div MinsPerDay
WindowDays == (TodayDay - 30)..(TodayDay + 59)

ActiveDocs == { k \in 1..Len(staffStore) : staffStore[k].active # "false" }

GlobalNotice ==
  IF ActiveDocs = {} THEN 12
  ELSE Min({ NoticeHours(staffStore[k]) : k \in ActiveDocs })

ShouldBlock(d) ==
  \/ d < TodayDay
  \/ Working(d) = {}
  \/ At(d, 20) < now + GlobalNotice * 60

C8_OnlyActiveStaff ==
  /\ lastScan = "ok" =>
       \A w \in 0..(Len(WeekdayLong) - 1) :
         Working(w) = {} =>
           \A d \in WindowDays : d % Len(WeekdayLong) = w => d \in blockedDates
  /\ lastLoad.outcome \in {"ok", "blocked"} /\ Working(LoadDay) = {} =>
       availableTimes = <<>>

\* a scanned calendar and a date on which only an inactive member has
\* available = true, selected and answered with no slots
C8_Witness ==
  /\ lastScan = "ok"
  /\ lastLoad.outcome = "blocked"
  /\ LoadDay \in blockedDates
  /\ Working(LoadDay) = {}
  /\ \E k \in 1..Len(staffStore) :
       /\ staffStore[k].active = "false"
       /\ EntryOf(staffStore[k], LoadDay).kind = "object"
       /\ EntryOf(staffStore[k], LoadDay).available

(* C9: when the roster cannot be loaded the scanner leaves the blocked set *)
(* empty, and the page goes on working.                                    *)
C9_FailOpen ==
  lastScan = "failed" => blockedDates = {} /\ scanPc = "done"

\* after the failed scan a date was selected and slots came back
C9_Witness ==
  /\ lastScan = "failed"
  /\ blockedDates = {}
  /\ lastLoad.outcome = "ok"
  /\ availableTimes # <<>>

(* C10: getDayAvail takes the entry under the lower-case weekday key, and  *)
(* the one under the capitalized key only when the lower-case key holds    *)
(* nothing; it returns null when the entry it takes is not a record; and   *)
(* it defaults a missing start to 07:00 and a missing end to 20:00, each   *)
(* on its own.                                                             *)
RawEntry(obj, key) == IF key \in DOMAIN obj THEN obj[key] ELSE DayUndefined

ProbedLower == RawEntry(probeObj, probeDay)
ProbedTitle ==
  RawEntry(probeObj,
           CapitalizedDays[CHOOSE i \in 1..Len(WeekdayLong) :
                             WeekdayLong[i] = probeDay])
HoldsNothing(e) == e.kind \in {"undefined", "null"}

\* what a record e must come out as
ReadsAs(e, out) ==
  /\ ~out.null
  /\ out.available = e.available
  /\ out.start = (IF e.startTime # <<>> THEN e.startTime
                  ELSE IF e.from # <<>> THEN e.from
                  ELSE <<"0", "7", ":", "0", "0">>)
  /\ out.end = (IF e.endTime # <<>> THEN e.endTime
                ELSE IF e.to # <<>> THEN e.to
                ELSE <<"2", "0", ":", "0", "0">>)

C10_DayAvail ==
  probePc = "out" =>
    /\ ~HoldsNothing(ProbedLower) /\ ProbedLower.kind = "object" =>
         ReadsAs(ProbedLower, probeOut)
    /\ ~HoldsNothing(ProbedLower) /\ ProbedLower.kind # "object" =>
         probeOut.null
    /\ HoldsNothing(ProbedLower) /\ ProbedTitle.kind = "object" =>
         ReadsAs(ProbedTitle, probeOut)
    /\ ProbedLower.kind # "object" /\ ProbedTitle.kind # "object" =>
         probeOut.null

\* only the capitalized key is there, and its record has an end of 18:00
\* and no start
C10_Witness ==
  /\ probePc = "out"
  /\ ProbedLower.kind = "undefined"
  /\ ProbedTitle.kind = "object"
  /\ ProbedTitle.startTime = <<>> /\ ProbedTitle.from = <<>>
  /\ ProbedTitle.endTime = T1800
  /\ probeOut.start = <<"0", "7", ":", "0", "0">>
  /\ probeOut.end = T1800


(* C11: in every variant and for every job description, estimatedHours and *)
(* baseEstimatedHours of the quote are at least MIN_HOURS and a multiple   *)
(* of 0.5; with zero rooms and no add-ons estimatedHours is MIN_HOURS.     *)
AtLeast(x, y) == ~BigLt[x, y]

\* x is a whole number of halves: no bit below 2^-1 is set
IsHalfMultiple(x) ==
  /\ \A i \in 1..(FRAC_LIMBS - 1) : Limb(x, i) = 0
  /\ Limb(x, FRAC_LIMBS) % (LIMB \div 2) = 0

NoRooms ==
  /\ rooms = <<>>
  /\ kitchensCount = 0
  /\ toiletRoomsCount = 0
  /\ \A k \in {"bedrooms", "livingRooms", "kitchens", "bathrooms",
               "utilityRooms"} : CountOf(form[k]) = Zero
  /\ form.additionalRooms = <<>>

NoAddOns == extras = initialExtras /\ form.addOns = <<>>

C11_HoursFloor ==
  quotePc = "fresh" =>
    /\ AtLeast(pricing.estimatedHours, MIN_HOURS(variant))
    /\ AtLeast(pricing.baseEstimatedHours, MIN_HOURS(variant))
    /\ IsHalfMultiple(pricing.estimatedHours)
    /\ IsHalfMultiple(pricing.baseEstimatedHours)
    /\ NoRooms /\ NoAddOns => pricing.estimatedHours = MIN_HOURS(variant)

\* the office form with nothing entered but a footfall level quotes two hours
C11_Witness ==
  /\ quotePc = "fresh"
  /\ variant = "office"
  /\ NoRooms /\ NoAddOns
  /\ form.cleanliness = "quite-dirty"
  /\ pricing.estimatedHours = FromInt(2)
  /\ pricing.baseEstimatedHours = FromInt(2)

(* C12: in the non-promotional variants totalPrice is labour + addOnsTotal *)
(* + suppliesFee rounded to 2 decimals; labour is estimatedHours times the *)
(* hourly rate; addOnsTotal is the sum of add-on count times unit price;   *)
(* suppliesFee is the flat fee exactly when the supplies choice is         *)
(* "bring"; and the office rate is the weekend rate exactly when the       *)
(* selected date is a Saturday or Sunday, the weekday rate otherwise and   *)
(* when no date is selected.  Amounts are counted in whole pounds and      *)
(* pence, hours in halves.                                                 *)
HalvesOf(x) == Ceil(DblMul(x, Two))

OnWeekend ==
  /\ selectedDate # NoDate
  /\ WeekdayLower(selectedDate) \in { WeekdayLong[6], WeekdayLong[7] }

RatePounds ==
  IF variant = "office"
  THEN (IF OnWeekend THEN Ceil(WEEKEND_HOURLY_RATE)
        ELSE Ceil(WEEKDAY_HOURLY_RATE))
  ELSE Ceil(HOURLY_RATE)

RECURSIVE LabelPounds(_)
LabelPounds(keys) ==
  IF keys = <<>> THEN 0
  ELSE Ceil(Find(ADDON_MAP, Head(keys), Zero)) + LabelPounds(Tail(keys))

AddOnPounds ==
  IF variant = "home" THEN LabelPounds(form.addOns)
  ELSE extras.fridge * Ceil(ADDON_PRICES.fridge)
       + extras.freezer * Ceil(ADDON_PRICES.freezer)
       + extras.dishwasher * Ceil(ADDON_PRICES.dishwasher)
       + extras.cupboards * Ceil(ADDON_PRICES.cupboards)

SuppliesPounds ==
  IF form.products = "bring" THEN Ceil(SUPPLIES_FEE(variant)) ELSE 0

PenceOf(pounds) == pounds * 100

C12_TotalPrice ==
  quotePc = "fresh" /\ variant # "promo" =>
    LET labourPence == HalvesOf(pricing.estimatedHours) * (PenceOf(RatePounds) \div 2)
    IN  /\ pricing.labour = Dec(labourPence, 100)
        /\ pricing.addOnsTotal = FromInt(AddOnPounds)
        /\ pricing.suppliesFee = FromInt(SuppliesPounds)
        /\ pricing.totalPrice =
             Dec(labourPence + PenceOf(AddOnPounds) + PenceOf(SuppliesPounds),
                 100)

\* an office clean on a Saturday with a fridge, the cleaner bringing the
\* supplies: two hours at the weekend rate, the fridge and the fee
C12_Witness ==
  /\ quotePc = "fresh"
  /\ variant = "office"
  /\ OnWeekend
  /\ form.products = "bring"
  /\ extras.fridge = 1 /\ extras.freezer = 0 /\ extras.dishwasher = 0
  /\ pricing.estimatedHours = FromInt(2)
  /\ pricing.totalPrice = FromInt(2 * 32 + 20 + 5)

(* C13: teamApplied is true if and only if baseEstimatedHours is strictly  *)
(* greater than the variant's team threshold; when it is true              *)
(* estimatedHours is max(MIN_HOURS, roundUpToHalf(baseEstimatedHours /     *)
(* teamFactor)), when it is false estimatedHours is baseEstimatedHours;    *)
(* in both cases estimatedHours <= baseEstimatedHours.  Hours are counted  *)
(* in halves and the factor in tenths.                                     *)
FactorTenths == Ceil(DblMul(TEAM_FACTOR(variant), FromInt(10)))

\* the least whole number that is at least n / d
CeilDiv(n, d) == (n + d - 1) \div d

HigherOf(a, b) == IF a >= b THEN a ELSE b

C13_TeamSplit ==
  quotePc = "fresh" =>
    LET base == HalvesOf(pricing.baseEstimatedHours)
        est == HalvesOf(pricing.estimatedHours)
    IN  /\ IsHalfMultiple(pricing.baseEstimatedHours)
        /\ IsHalfMultiple(pricing.estimatedHours)
        /\ pricing.teamApplied <=>
             base > HalvesOf(TEAM_THRESHOLD_HOURS(variant))
        /\ pricing.teamApplied =>
             est = HigherOf(HalvesOf(MIN_HOURS(variant)),
                            CeilDiv(base * 10, FactorTenths))
        /\ ~pricing.teamApplied => est = base
        /\ est <= base

\* the older office form above its threshold of six hours
C13_Witness ==
  /\ quotePc = "fresh"
  /\ variant = "officeOld"
  /\ pricing.teamApplied
  /\ BigLt[FromInt(6), pricing.baseEstimatedHours]
  /\ BigLt[pricing.estimatedHours, pricing.baseEstimatedHours]

(* C14: in the promotional variant the quote does not depend on any input: *)
(* for every room, add-on, footfall, supplies and date selection,          *)
(* estimatedHours and baseEstimatedHours are 1, teamApplied is false,      *)
(* labour, addOnsTotal and suppliesFee are 0, and totalPrice is the        *)
(* deposit amount.                                                         *)
C14_PromoFlat ==
  quotePc = "fresh" /\ variant = "promo" =>
    /\ pricing.estimatedHours = FromInt(1)
    /\ pricing.baseEstimatedHours = FromInt(1)
    /\ pricing.teamApplied = FALSE
    /\ pricing.labour = Zero
    /\ pricing.addOnsTotal = Zero
    /\ pricing.suppliesFee = Zero
    /\ pricing.totalPrice = DEPOSIT_AMOUNT

\* two rooms, a freezer, a dirty home, supplies brought, on a Saturday
C14_Witness ==
  /\ quotePc = "fresh"
  /\ variant = "promo"
  /\ Len(rooms) = 2 /\ rooms[2].typeId = "bedroom"
  /\ extras.freezer = 1
  /\ form.cleanliness = "quite-dirty"
  /\ form.products = "bring"
  /\ OnWeekend
  /\ pricing.totalPrice = FromInt(25)

(* C15: raw hours in the office pricing are the sum over rooms of size     *)
(* weight times room type multiplier, plus the per-cubicle allowance for   *)
(* each bathroom room on top of that room's own contribution, plus the sum *)
(* of add-on count times add-on duration; the footfall multiplier is       *)
(* applied once to this sum (1 for no or an unknown level); a room whose   *)
(* type or size key is unknown or empty contributes zero.  The older       *)
(* office form has no bathroom room type and asks for kitchens and toilet  *)
(* rooms on their own: there the sum is rooms, kitchens and cubicles.      *)
(* Weights are counted in tenths, hours in hundredths, and the raw hours   *)
(* of the memo are the double next to the exact figure.                    *)
Tenths(x) == Round(DblMul(x, FromInt(10)))
Hundredths(x) == Round(DblMul(x, FromInt(100)))

KnownOrZero(table, key) == IF key \in DOMAIN table THEN Tenths(table[key]) ELSE 0

RECURSIVE RoomsHundredths(_)
RoomsHundredths(rs) ==
  IF rs = <<>> THEN 0
  ELSE KnownOrZero(SIZE_OPTIONS(variant), Head(rs).sizeId)
         * KnownOrZero(ROOM_TYPES(variant), Head(rs).typeId)
       + RoomsHundredths(Tail(rs))

BathroomRooms == { i \in 1..Len(rooms) : rooms[i].typeId = "bathroom" }

SumHundredths ==
  IF variant = "office"
  THEN RoomsHundredths(rooms)
       + Cardinality(BathroomRooms) * Hundredths(PER_CUBICLE_HOURS)
       + extras.fridge * Hundredths(ADDON_HOURS.fridge)
       + extras.freezer * Hundredths(ADDON_HOURS.freezer)
       + extras.dishwasher * Hundredths(ADDON_HOURS.dishwasher)
       + extras.cupboards * Hundredths(ADDON_HOURS.cupboards)
  ELSE RoomsHundredths(rooms)
       + kitchensCount * 10 * KnownOrZero(KITCHEN_SIZE_WEIGHT, kitchenSizeId)
       + toiletRoomsCount * HigherOf(1, avgCubicles)
           * Hundredths(PER_CUBICLE_HOURS)

FootfallHundredths ==
  IF form.cleanliness \in DOMAIN CLEAN_MULTIPLIER
  THEN Hundredths(CLEAN_MULTIPLIER[form.cleanliness]) ELSE 100

\* a and b are less than 2^-33 apart
Close(a, b) ==
  With(a, LAMBDA x : With(b, LAMBDA y :
    BigLt[IF BigLt[x, y] THEN BigSub[y, x] ELSE BigSub[x, y], <<0, 0, 1>>]))

C15_RawHours ==
  quotePc = "fresh" /\ variant \in {"office", "officeOld"} =>
    LET raw == RawHours(variant, Job)
    IN  /\ Close(BigMulSmall[BigMulSmall[raw, 100], 100],
                 FromInt(SumHundredths * FootfallHundredths))
        /\ pricing.baseEstimatedHours =
             DblMax(MIN_HOURS(variant), roundUpToHalf(raw))

\* a bathroom and a room of unknown size, a freezer, a dirty office:
\* (0.8 * 1.2 + 0.35 + 0 + 0.75) * 1.25 = 2.575, quoted as three hours
C15_Witness ==
  /\ quotePc = "fresh"
  /\ variant = "office"
  /\ rooms = << RoomRow("bathroom", "m"), RoomRow("private-office", "xxl") >>
  /\ extras = [initialExtras EXCEPT !.freezer = 1]
  /\ form.cleanliness = "quite-dirty"
  /\ SumHundredths * FootfallHundredths = 25750
  /\ pricing.baseEstimatedHours = FromInt(3)

----------------------------------------------------------------------------
(* Vocabulary of the submission properties. *)

Calls == 1..Len(submissions)

\* the fields the booking cannot do without, as the call closed over them
RequiredGiven(s) ==
  /\ s.date # NoDate
  /\ s.time # <<>>
  /\ \A k \in ContactFields \cup AddressFields : s.form[k] # ""

\* C16: in every variant a submit with a required field missing (date, time
\* slot, name, email, phone, address line 1, town, postcode) ends in a
\* reported validation error without any side effect: a call of onSubmit
\* gets past its checks, to the booking write, the webhook and the ledger,
\* only with all of them given, and no stored booking lacks its postcode.
C16_ValidationGate ==
  /\ \A i \in Calls : RequiredGiven(submissions[i])
  /\ \A id \in DOMAIN bookingDocs : bookingDocs[id].postcode # ""

Downstream == { "webhook", "income", "expense" }

\* the message the catch block of a downstream step logs
LoggedAs(f) ==
  IF f = "webhook" THEN "Failed to send Zapier webhook for booking"
  ELSE "Failed to log finances for booking"

\* the calls whose setDoc succeeded under the order id of call i
WritersOf(i) ==
  { j \in Calls : submissions[j].wrote
                    /\ submissions[j].orderId = submissions[i].orderId }

\* C18: once the booking write of a call has succeeded, a failure of its
\* webhook call or of either of its ledger writes is only logged: the stored
\* booking is still there and is what a successful write under its id has
\* stored, nothing is reported to the customer (no alert, no rejection
\* left unhandled), and the call goes on, to end in the thank-you state.
C18_DownstreamFailuresLogged ==
  \A i \in Calls :
    /\ HasAddressLookup(variant)
    /\ submissions[i].wrote
    /\ submissions[i].failed \cap Downstream # {}
    =>
      /\ \A f \in submissions[i].failed :
           [message |-> LoggedAs(f), call |-> i] \in consoleErrors
      /\ submissions[i].orderId \in DOMAIN bookingDocs
      /\ \E j \in WritersOf(i) :
           bookingDocs[submissions[i].orderId]
             = BookingDocument(variant, submissions[j])
      /\ lastAlert = submissions[i].alertBefore
      /\ submissions[i].pc \in {"income", "expense", "done"}
      /\ (submissions[i].pc = "done" => bookingComplete)

\* the webhook and the staff-pay entry of a call failed, its income entry
\* was written; the booking is stored and the thank-you layout is shown
C18_Witness ==
  \E i \in Calls :
    /\ submissions[i].failed = {"webhook", "expense"}
    /\ submissions[i].pc = "done"
    /\ WritersOf(i) = {i}
    /\ bookingDocs[submissions[i].orderId]
         = BookingDocument(variant, submissions[i])
    /\ \E e \in finances :
         /\ e.type = "Income"
         /\ e.orderId = submissions[i].orderId
         /\ e.call = i
    /\ bookingComplete

\* C19: the webhook call, the income entry and the staff-pay expense entry of
\* a successful submission are independent: whichever of them fail, a call
\* that has run to its end has attempted all three (the expense entry being
\* due whenever the staff pay is positive).
C19_DownstreamIndependent ==
  \A i \in Calls :
    /\ HasAddressLookup(variant)
    /\ submissions[i].wrote
    /\ submissions[i].staffPayDue
    /\ submissions[i].pc = "done"
    => Downstream \subseteq submissions[i].attempted

\* the bookings stored for the draft of call j
StoredFor(j) ==
  { id \in DOMAIN bookingDocs : bookingDocs[id].draft = submissions[j].draft }

\* C20: the booking write happens once per submit: when a submit event
\* arrives while an earlier submission of the same draft is still in flight,
\* at most one booking is stored for that draft.
C20_OncePerDraft ==
  \A j \in Calls :
    submissions[j].overlapped => Cardinality(StoredFor(j)) <= 1

----------------------------------------------------------------------------
(* Overlapping slot loads: the effect on [selectedDate, blockedDates] starts *)
(* a loadTimes run at every change of the date, whether or not an earlier   *)
(* run is still suspended at an await; nothing cancels a run and no run      *)
(* compares its date with the current one before it sets the state.  The    *)
(* blocked dates have been scanned and the stores do not change.            *)

MaxLoads == 2       \* loadTimes runs suspended at the same time

OverlapInit ==
  /\ staffStore \in Rosters
  /\ now \in NowChoices
  /\ bookingsStore \in SeqsFrom(BookingDocs(now), 1, MaxBookings)
  /\ unavailStore \in Overrides(now)
  /\ scanPc = "done"
  /\ blockedDates = ComputeBlocked(staffStore, now)
  /\ lastScan = "ok"
  /\ selectedDate = NoDate
  /\ availableTimes = <<>>
  /\ timesLoading = FALSE
  /\ loads = <<>>
  /\ lastLoad = NoLoad
  /\ probePc = "idle"
  /\ probeObj = <<>>
  /\ probeDay = <<>>
  /\ probeOut = NullAvail
  /\ QuoteIdle
  /\ SubmitIdle

\* a click on a calendar cell that is not greyed out, and the loadTimes run
\* the change of selectedDate starts: setSelectedTime(''), then as StartLoad
ChangeDate(d) ==
  /\ d # selectedDate
  /\ ~(ymd(d) \in blockedDates \/ d < Today(now))
  /\ Len(loads) < MaxLoads
  /\ selectedDate' = d
  /\ selectedTime' = <<>>
  /\ StartLoad(d, blockedDates)
  /\ UNCHANGED <<storeVars, probeVars, quoteVars>>
  /\ UNCHANGED <<step, lookupChosen, bookingComplete, zapConfigured,
                 effectVars, browserReport>>

\* a click on one of the time buttons, which are rendered for the entries of
\* availableTimes while timesLoading is false and a date is selected
PickTime ==
  /\ selectedDate # NoDate
  /\ ~timesLoading
  /\ \E i \in 1..Len(availableTimes) :
       /\ selectedTime # availableTimes[i]
       /\ selectedTime' = availableTimes[i]
  /\ UNCHANGED <<availVars, probeVars, quoteVars>>
  /\ UNCHANGED <<step, lookupChosen, bookingComplete, zapConfigured,
                 effectVars, browserReport>>

OverlapNext ==
  \/ \E d \in Clickable(now) : ChangeDate(d)
  \/ PickTime
  \/ \E i \in 1..Len(loads) : LoadGetUnavailability(i)
  \/ \E i \in 1..Len(loads) : LoadGetBookings(i)
  \/ \E i \in 1..Len(loads) : LoadGetStaff(i)

OverlapSpec == OverlapInit /\ [][OverlapNext]_vars

\* what a loadTimes run for date computes from the stores as they are
TimesFor(date) ==
  ComputeTimes(date, BookedLegacy(GetDoc(unavailStore, ymd(date))),
               BookingsOn(bookingsStore, ymd(date)), staffStore, now)

\* C21: with a date selected, once no loadTimes run is in flight the slot
\* list shown is the one computed for the selected date; the loading
\* indicator is off only when no run is in flight; and every time that can
\* be picked, or has been picked, is in the result for the selected date.
C21_CurrentDateShown ==
  selectedDate # NoDate =>
    /\ loads = <<>> => availableTimes = TimesFor(selectedDate)
    /\ ~timesLoading => loads = <<>>
    /\ ~timesLoading =>
         \A i \in 1..Len(availableTimes) :
           \E j \in 1..Len(TimesFor(selectedDate)) :
             availableTimes[i] = TimesFor(selectedDate)[j]
    /\ selectedTime # <<>> =>
         \E j \in 1..Len(TimesFor(selectedDate)) :
           selectedTime = TimesFor(selectedDate)[j]

----------------------------------------------------------------------------
(* Phone normaliser: toE164UK called on its own.  The call uses the        *)
(* variables of a direct call: probeObj is the argument raw, probeOut the   *)
(* return value.                                                            *)

MaxPhoneDigits == 10   \* digits typed after the leading characters

UK_MOBILE ==
  << "0", "7", "1", "2", "3", "4", "5", "6", "7", "8", "9" >>
UK_LANDLINE_44 ==
  << "4", "4", "2", "0", "7", "1", "2", "3", "4", "5", "6", "7" >>
US_NUMBER ==
  << "+", "1", " ", "2", "1", "2", " ", "5", "5", "5", " ",
     "0", "1", "0", "0" >>

\* what is typed before the digits, and how the digits begin
PhoneLeads == { <<>>, <<" ">>, <<"+">>, <<" ", "+">>, <<"(">>, <<"+", " ">> }
PhoneHeads ==
  { <<>>, <<"0">>, <<"4", "4">>, <<"4">>, <<"1">>, <<"0", ")", "4">>,
    <<"4", " ", "4">> }
PhoneTails == { <<>>, <<" ">>, <<"x">> }

PhoneInputs ==
  { UK_MOBILE, UK_LANDLINE_44, US_NUMBER } \cup
  { l \o h \o [i \in 1..n |-> "7"] \o t :
      l \in PhoneLeads, h \in PhoneHeads, n \in 0..MaxPhoneDigits,
      t \in PhoneTails }

PhoneInit ==
  /\ staffStore = <<>>
  /\ bookingsStore = <<>>
  /\ unavailStore = <<>>
  /\ now = Morning
  /\ scanPc = "pending"
  /\ blockedDates = {}
  /\ selectedDate = NoDate
  /\ availableTimes = <<>>
  /\ timesLoading = FALSE
  /\ loads = <<>>
  /\ lastLoad = NoLoad
  /\ lastScan = "none"
  /\ probePc = "in"
  /\ probeObj \in PhoneInputs
  /\ probeDay = <<>>
  /\ probeOut = NullString
  /\ QuoteIdle
  /\ SubmitIdle

NormalisePhone ==
  /\ probePc = "in"
  /\ probeOut' = toE164UK(probeObj)
  /\ probePc' = "out"
  /\ UNCHANGED <<probeObj, probeDay>>
  /\ UNCHANGED <<availVars, quoteVars, submitVars>>

PhoneNext == NormalisePhone

PhoneSpec == PhoneInit /\ [][PhoneNext]_vars

\* C22: toE164UK strips the non-digits and applies its rules in this order:
\* ten or more digits starting with 0 give +44 and the digits after the 0;
\* otherwise digits starting with 44 give + and the digits; otherwise an
\* input that starts with + once trimmed is returned trimmed and otherwise
\* unchanged; otherwise + and the digits are returned.  07123456789 gives
\* +447123456789, 442071234567 gives +442071234567 and "+1 212 555 0100" is
\* returned as it is.
C22_PhoneRules ==
  probePc = "out" /\ probeObj # <<>> =>
    LET digits == DigitsOnly(probeObj)
        zero == digits # <<>> /\ digits[1] = "0" /\ Len(digits) >= 10
        fortyFour == Len(digits) >= 2 /\ digits[1] = "4" /\ digits[2] = "4"
        plus == Trim(probeObj) # <<>> /\ Trim(probeObj)[1] = "+"
    IN  /\ zero => probeOut = <<"+", "4", "4">> \o Tail(digits)
        /\ ~zero /\ fortyFour => probeOut = <<"+">> \o digits
        /\ ~zero /\ ~fortyFour /\ plus => probeOut = Trim(probeObj)
        /\ ~zero /\ ~fortyFour /\ ~plus => probeOut = <<"+">> \o digits
        /\ probeObj = UK_MOBILE => probeOut = <<"+", "4", "4">> \o Tail(UK_MOBILE)
        /\ probeObj = UK_LANDLINE_44 => probeOut = <<"+">> \o UK_LANDLINE_44
        /\ probeObj = US_NUMBER => probeOut = US_NUMBER

\* a number written +44 with spaces has been normalised by the second rule,
\* and the three numbers of the examples have been normalised
C22_Witness ==
  /\ probePc = "out"
  /\ probeObj = <<" ", "+", "4", " ", "4", "7", "7", "7", "7", "7", "7", "7",
                  "7", "7", "7", " ">>
  /\ probeOut = <<"+", "4", "4", "7", "7", "7", "7", "7", "7", "7", "7", "7",
                  "7">>

----------------------------------------------------------------------------
(* The finance ledger: onSubmit of the promotional and current office      *)
(* pages for a week day or a Saturday, a small or a large job.              *)

\* the rooms of a job two cleaners are sent to on the current office page
LargeJob == << RoomRow("open-plan", "xl"), RoomRow("open-plan", "xl") >>

LedgerInit ==
  /\ staffStore = <<>>
  /\ bookingsStore = <<>>
  /\ unavailStore = <<>>
  /\ now = Morning
  /\ scanPc = "done"
  /\ blockedDates = {}
  /\ lastScan = "ok"
  /\ selectedDate \in Clickable(Morning)
  /\ availableTimes = << IntToStr(9) >>
  /\ timesLoading = FALSE
  /\ loads = <<>>
  /\ lastLoad = NoLoad
  /\ probePc = "idle"
  /\ probeObj = <<>>
  /\ probeDay = <<>>
  /\ probeOut = NullAvail
  /\ variant \in { v \in VARIANTS : HasAddressLookup(v) }
  /\ rooms \in IF variant = "promo" THEN { << RoomRow("bedroom", "m") >> }
               ELSE { <<>>, LargeJob }
  /\ extras = initialExtras
  /\ \E a \in ACCESS_OPTIONS(variant),
        c \in IF variant = "office" THEN {"average", "filthy"} ELSE {""} :
       form = [CompleteForm(variant, a) EXCEPT !.cleanliness = c]
  /\ kitchensCount = 0
  /\ kitchenSizeId = ""
  /\ toiletRoomsCount = 0
  /\ avgCubicles = 1
  /\ pricing = NoQuote
  /\ quotePc = "idle"
  /\ step = LastStep(variant)
  /\ selectedTime = IntToStr(9)
  /\ lookupChosen = TRUE
  /\ bookingComplete = FALSE
  /\ zapConfigured = FALSE
  /\ submissions = <<>>
  /\ bookingDocs = <<>>
  /\ webhooks = {}
  /\ finances = {}
  /\ consoleErrors = {}
  /\ lastAlert = ""
  /\ browserReport = FALSE
  /\ draft = 0

LedgerSpec == LedgerInit /\ [][DownstreamNext]_vars

\* C23: the amount of an expense entry is the estimated hours times the staff
\* rate looked up by service type and weekend or week day, doubled when two
\* cleaners are sent, to the penny; the amount of an income entry is the
\* total price of the booking.
C23_LedgerAmounts ==
  \A e \in finances :
    LET p == submissions[e.call].pricing
        rate == getStaffRateForJob(serviceType(variant),
                                   submissions[e.call].date)
    IN  /\ e.type = "Income" => e.amount = p.totalPrice
        /\ e.type = "Expense" =>
             e.amount = toFixed2(DblMul(DblMul(p.estimatedHours, rate),
                                        IF p.teamApplied THEN Two ELSE One))

(* C24: the team-size constants are per variant.  As stated: the residential *)
(* and the current office form send two cleaners above 4 hours with factor  *)
(* 1.7, the older office form above 6 hours with factor 1.6, so that a base *)
(* estimate of 6.5 hours becomes 4.5 hours there.  As the forms have them:  *)
(* the residential form 4 hours and 1.6, the current office form 4 hours    *)
(* and 1.7, the older office form 6 hours and 1.7, so that 6.5 hours become *)
(* 4 hours.  Hours are counted in halves and the factor in tenths.          *)
TeamRule(thresholdHours, factorTenths) ==
  LET base == HalvesOf(pricing.baseEstimatedHours)
      est == HalvesOf(pricing.estimatedHours)
  IN  /\ pricing.teamApplied <=> base > 2 * thresholdHours
      /\ pricing.teamApplied =>
           est = HigherOf(HalvesOf(MIN_HOURS(variant)),
                          CeilDiv(base * 10, factorTenths))

\* C24 as stated: 4 hours and 1.7 for the residential and the current office
\* form, 6 hours and 1.6 for the older office form, where a base estimate of
\* 6.5 hours becomes 4.5 hours per cleaner
C24_TeamConstantsStated ==
  quotePc = "fresh" =>
    /\ variant \in {"home", "office"} => TeamRule(4, 17)
    /\ variant = "officeOld" =>
         /\ TeamRule(6, 16)
         /\ HalvesOf(pricing.baseEstimatedHours) = 13 =>
              HalvesOf(pricing.estimatedHours) = 9

\* C24 amended: 4 hours and 1.6 for the residential form, 4 hours and 1.7
\* for the current office form, 6 hours and 1.7 for the older office form,
\* where a base estimate of 6.5 hours becomes 4 hours per cleaner
C24_TeamConstants ==
  quotePc = "fresh" =>
    /\ variant = "home" => TeamRule(4, 16)
    /\ variant = "office" => TeamRule(4, 17)
    /\ variant = "officeOld" =>
         /\ TeamRule(6, 17)
         /\ HalvesOf(pricing.baseEstimatedHours) = 13 =>
              HalvesOf(pricing.estimatedHours) = 8

\* the older office form with a base estimate of 6.5 hours
C24_Witness ==
  /\ quotePc = "fresh"
  /\ variant = "officeOld"
  /\ HalvesOf(pricing.baseEstimatedHours) = 13
  /\ pricing.teamApplied
  /\ pricing.estimatedHours = FromInt(4)

----------------------------------------------------------------------------
(* Two submissions of one page drawing the same order id: the contact       *)
(* inputs stay mounted and enabled while onSubmit runs, so that the          *)
(* customer can change the name between two activations of a submit button. *)

CustomerNames == {"Ada", "Bob"}

\* the customerName input is typed over
RetypeName ==
  /\ FormShown
  /\ \E n \in CustomerNames :
       /\ n # form.customerName
       /\ form' = [form EXCEPT !.customerName = n]
  /\ UNCHANGED <<rooms, extras, step, selectedTime, lookupChosen,
                 bookingComplete, loadVars>>
  /\ UNCHANGED <<fixedVars, effectVars, browserReport>>

CollisionNext ==
  \/ RetypeName
  \/ ClickSubmit
  \/ ClickChange
  \/ SetDocSettles
  \/ WebhookSettles
  \/ IncomeSettles
  \/ ExpenseSettles

CollisionSpec == DownstreamInit /\ [][CollisionNext]_vars

\* C25: a booking document stored under its order id is never overwritten
\* or changed by a later submission, whatever ids createOrderId draws, two
\* submissions drawing the same id included.
C25_NeverOverwritten ==
  [][\A k \in DOMAIN bookingDocs :
       /\ k \in DOMAIN bookingDocs'
       /\ bookingDocs'[k] = bookingDocs[k]]_vars

\* C26: on every page that sends the webhook, the webhook call of a booking
\* is made only after the booking document has been written, and a call of
\* onSubmit whose setDoc fails sends no webhook and writes no ledger entry.
C26_WebhookAfterWrite ==
  \A i \in Calls :
    /\ (submissions[i].pc = "webhook" \/ "webhook" \in submissions[i].attempted)
         => submissions[i].wrote
    /\ "setDoc" \in submissions[i].failed =>
         /\ submissions[i].attempted = {}
         /\ \A w \in webhooks : w.call # i
         /\ \A e \in finances : e.call # i

----------------------------------------------------------------------------
(* One loadTimes run while other parties write to the stores: another       *)
(* customer's onSubmit stores a booking, a staff document is deleted.       *)

MaxChanges == 2     \* changes of the stores while a run is in flight

\* the stores have changed: every run in flight has one more state to have
\* read from
Witnessed(bookings, staff) ==
  loads' = [i \in 1..Len(loads) |->
              [loads[i] EXCEPT !.seen = @ \cup { <<bookings, staff>> }]]

ChangeAllowed ==
  /\ loads # <<>>
  /\ \A i \in 1..Len(loads) : Cardinality(loads[i].seen) <= MaxChanges

\* setDoc(doc(db, 'bookings', orderId), ...) of another customer's page
BookingAdded ==
  /\ ChangeAllowed
  /\ \E k \in 1..Len(BookingDocs(now)) :
       /\ \A j \in 1..Len(bookingsStore) :
            bookingsStore[j] # BookingDocs(now)[k]
       /\ bookingsStore' = Append(bookingsStore, BookingDocs(now)[k])
  /\ Witnessed(bookingsStore', staffStore)
  /\ UNCHANGED <<staffStore, unavailStore, now, scanPc, blockedDates,
                 selectedDate, availableTimes, timesLoading, lastLoad,
                 lastScan>>
  /\ UNCHANGED <<probeVars, quoteVars, submitVars>>

\* a document of the staff collection is deleted
StaffRemoved ==
  /\ ChangeAllowed
  /\ \E k \in 1..Len(staffStore) : staffStore' = RemoveAt(staffStore, k)
  /\ Witnessed(bookingsStore, staffStore')
  /\ UNCHANGED <<bookingsStore, unavailStore, now, scanPc, blockedDates,
                 selectedDate, availableTimes, timesLoading, lastLoad,
                 lastScan>>
  /\ UNCHANGED <<probeVars, quoteVars, submitVars>>

\* a date has just been clicked and its loadTimes run started
SnapshotInit ==
  /\ staffStore \in Rosters
  /\ now \in NowChoices
  /\ bookingsStore \in SeqsFrom(BookingDocs(now), 1, MaxBookings)
  /\ unavailStore \in Overrides(now)
  /\ scanPc = "done"
  /\ blockedDates = ComputeBlocked(staffStore, now)
  /\ lastScan = "ok"
  /\ selectedDate \in { d \in Clickable(now) : ymd(d) \notin blockedDates }
  /\ availableTimes = <<>>
  /\ timesLoading = TRUE
  /\ loads = << LoadRun(selectedDate, blockedDates) >>
  /\ lastLoad = [NoLoad EXCEPT !.outcome = "running", !.date = selectedDate,
                               !.blocked = blockedDates]
  /\ probePc = "idle"
  /\ probeObj = <<>>
  /\ probeDay = <<>>
  /\ probeOut = NullAvail
  /\ QuoteIdle
  /\ SubmitIdle

SnapshotNext ==
  \/ BookingAdded
  \/ StaffRemoved
  \/ \E i \in 1..Len(loads) : LoadGetUnavailability(i)
  \/ \E i \in 1..Len(loads) : LoadGetBookings(i)
  \/ \E i \in 1..Len(loads) : LoadGetStaff(i)

SnapshotSpec == SnapshotInit /\ [][SnapshotNext]_vars

\* what loadTimes computes for date from the bookings and the roster of st
TimesAt(date, st) ==
  ComputeTimes(date, BookedLegacy(GetDoc(unavailStore, ymd(date))),
               BookingsOn(st[1], ymd(date)), st[2], now)

\* C27: the slot list a loadTimes run sets is the one computed from the
\* override, the bookings and the roster as they stood together at one
\* instant of the run, never from bookings of one instant and a roster of
\* another.
C27_OneSnapshot ==
  [][\A i \in 1..Len(loads) :
       (loads[i].pc = "staff" /\ loads' = RemoveAt(loads, i)) =>
         \E st \in loads[i].seen :
           availableTimes' = TimesAt(loads[i].date, st)]_vars

----------------------------------------------------------------------------
(* The end time of a booking: addHoursToTime called as onSubmit calls it,   *)
(* with the time of a slot of the grid and the hours of the quote.  The     *)
(* call uses the variables of a direct call: probeObj is bookingTime,       *)
(* probeDay the hours, probeOut the return value.                           *)

\* const endTime = addHoursToTime(bookingTime, pricing.estimatedHours ?? 1)
\* for bookingTime = `${selectedTime}:00`
ComputeEndTime ==
  /\ quotePc = "fresh"
  /\ probePc = "idle"
  /\ \E k \in 1..Len(ALL_TIMES) :
       /\ probeObj' = SlotKey(ALL_TIMES[k])
       /\ probeOut' = addHoursToTime(SlotKey(ALL_TIMES[k]),
                                     pricing.estimatedHours)
  /\ probeDay' = pricing.estimatedHours
  /\ probePc' = "out"
  /\ UNCHANGED <<availVars, quoteVars, submitVars>>

EndTimeNext == ComputePricing \/ ComputeEndTime

EndTimeSpec == PricingInit /\ [][EndTimeNext]_vars

\* C29: for every slot of the grid (7 to 20) and every estimatedHours of a
\* quote, the end time is the start time plus the hours to the minute, is a
\* clock time of the same day (its hour is at most 23) and lies after the
\* start time.
C29_EndTimeSameDay ==
  probePc = "out" =>
    LET startMins == timeToMinutes(probeObj).v
        endMins == timeToMinutes(probeOut).v
        endH == ParseInt(SplitColon(probeOut)[1]).v
    IN  /\ endMins = startMins + 30 * HalvesOf(probeDay)
        /\ endH <= 23
        /\ endMins > startMins

----------------------------------------------------------------------------
(* Several customers and one staff member.  This page has a date selected   *)
(* and its loadTimes run in flight, its form is complete; it writes its     *)
(* booking into bookingDocs.  The pages of other customers have loaded      *)
(* their slot lists at some earlier state of the bookings; their bookings   *)
(* come into bookingsStore.                                                 *)

\* a roster of one staff member, who is active and works from 10 to 14 at
\* weekends
WeekendRoster == << StaffDocs[4] >>

\* onSubmit of another customer's page for the Saturday: a time of the list
\* loadTimes set there when the first k bookings were stored, and the least
\* hours a quote of the page can have
OtherCustomerBooks ==
  /\ Len(bookingsStore) < MaxBookings
  /\ \E k \in 0..Len(bookingsStore) :
       LET d == Saturday(now)
           times == ComputeTimes(d, BookedLegacy(GetDoc(unavailStore, ymd(d))),
                                 BookingsOn(SubSeq(bookingsStore, 1, k),
                                            ymd(d)),
                                 staffStore, now)
       IN  \E j \in 1..Len(times) :
             bookingsStore' =
               Append(bookingsStore,
                      BookingDoc(ymd(d), SlotKey(times[j]),
                                 addHoursToTime(SlotKey(times[j]),
                                                MIN_HOURS(variant))))
  /\ Witnessed(bookingsStore', staffStore)
  /\ UNCHANGED <<staffStore, unavailStore, now, scanPc, blockedDates,
                 selectedDate, availableTimes, timesLoading, lastLoad,
                 lastScan>>
  /\ UNCHANGED <<probeVars, quoteVars, submitVars>>

SessionsInit ==
  /\ now = Morning
  /\ selectedDate = Saturday(Morning)
  /\ staffStore = WeekendRoster
  /\ bookingsStore = <<>>
  /\ unavailStore = <<>>
  /\ scanPc = "done"
  /\ blockedDates = ComputeBlocked(staffStore, now)
  /\ lastScan = "ok"
  /\ ymd(selectedDate) \notin blockedDates
  /\ availableTimes = <<>>
  /\ timesLoading = TRUE
  /\ loads = << LoadRun(selectedDate, blockedDates) >>
  /\ lastLoad = [NoLoad EXCEPT !.outcome = "running", !.date = selectedDate,
                               !.blocked = blockedDates]
  /\ probePc = "idle"
  /\ probeObj = <<>>
  /\ probeDay = <<>>
  /\ probeOut = NullAvail
  /\ variant \in { v \in VARIANTS : HasAddressLookup(v) }
  /\ rooms = IF variant = "promo" THEN << RoomRow("bedroom", "m") >> ELSE <<>>
  /\ extras = initialExtras
  /\ form = CompleteForm(variant, "let-in")
  /\ kitchensCount = 0
  /\ kitchenSizeId = ""
  /\ toiletRoomsCount = 0
  /\ avgCubicles = 1
  /\ pricing = NoQuote
  /\ quotePc = "idle"
  /\ step = LastStep(variant)
  /\ selectedTime = <<>>
  /\ lookupChosen = TRUE
  /\ bookingComplete = FALSE
  /\ zapConfigured = FALSE
  /\ submissions = <<>>
  /\ bookingDocs = <<>>
  /\ webhooks = {}
  /\ finances = {}
  /\ consoleErrors = {}
  /\ lastAlert = ""
  /\ browserReport = FALSE
  /\ draft = 0

SessionsNext ==
  \/ OtherCustomerBooks
  \/ \E i \in 1..Len(loads) : LoadGetUnavailability(i)
  \/ \E i \in 1..Len(loads) : LoadGetBookings(i)
  \/ \E i \in 1..Len(loads) : LoadGetStaff(i)
  \/ SelectTime
  \/ ClickSubmit
  \/ SetDocSettles
  \/ WebhookSettles
  \/ IncomeSettles
  \/ ExpenseSettles

SessionsSpec == SessionsInit /\ [][SessionsNext]_vars

\* the confirmed bookings: those of the other customers and those this page
\* has stored, each with its date and its interval in minutes of the day;
\* the end is the endTime onSubmit computes with addHoursToTime
Confirmed ==
  { [by |-> "other", key |-> j, date |-> bookingsStore[j].date,
     from |-> timeToMinutes(bookingsStore[j].startTime).v,
     to |-> timeToMinutes(bookingsStore[j].endTime).v] :
      j \in 1..Len(bookingsStore) }
  \cup
  { [by |-> "page", key |-> i, date |-> ymd(submissions[i].date),
     from |-> timeToMinutes(SlotKey(submissions[i].time)).v,
     to |-> timeToMinutes(addHoursToTime(SlotKey(submissions[i].time),
                                         submissions[i].pricing
                                           .estimatedHours)).v] :
      i \in { c \in Calls : /\ submissions[c].wrote
                            /\ submissions[c].orderId \in DOMAIN bookingDocs
                            /\ bookingDocs[submissions[c].orderId]
                                 = BookingDocument(variant, submissions[c]) } }

\* C28: with one active staff member working on a date, no two confirmed
\* bookings on that date have overlapping intervals [startTime, endTime),
\* however the slot loads, time selections and submissions of the customers
\* interleave.
C28_NoDoubleBooking ==
  \A a \in Confirmed, b \in Confirmed :
    (a # b /\ a.date = b.date
       /\ Len(DayStaff(staffStore, WeekdayLower(a.date * MinsPerDay))) = 1
       /\ Len(ActiveStaff(staffStore)) = 1)
      => ~(a.from < b.to /\ b.from < a.to)


----------------------------------------------------------------------------
(* Growth of the job: one more room or one more add-on unit entered in the  *)
(* form of a non-promotional page, and the memo recomputed.  probeOut keeps *)
(* the quote of the job before the unit was added, probeObj what was added. *)

\* the options of the count selects of the residential form: 0 .. n - 1
COUNT_OPTIONS ==
  [bedrooms |-> 10, livingRooms |-> 6, kitchens |-> 5, bathrooms |-> 8,
   utilityRooms |-> 5]

\* n(form[f]) as an integer
CountInt(s) == IF s = <<>> THEN 0 ELSE ParseInt(s).v

RoomRows(v) == IF v = "office" THEN OfficeRows ELSE OfficeOldRows

\* the form keeps the quote of the smaller job aside
Grown(what) ==
  /\ probePc' = "in"
  /\ probeObj' = what
  /\ probeOut' = pricing
  /\ quotePc' = "stale"
  /\ UNCHANGED <<availVars, probeDay, variant, pricing, submitVars>>

\* one more row in the rooms list with its type and size chosen, one more
\* kitchen in the older office form, one more room of a kind or one more
\* additional room ticked in the residential form
AddRoom ==
  /\ quotePc = "fresh"
  /\ probePc = "idle"
  /\ \/ /\ variant \in {"office", "officeOld"}
        /\ \E k \in 1..Len(RoomRows(variant)) :
             /\ rooms' = Append(rooms, RoomRows(variant)[k])
             /\ Grown(<<"room", RoomRows(variant)[k].typeId,
                      RoomRows(variant)[k].sizeId>>)
        /\ UNCHANGED <<extras, form, kitchensCount, kitchenSizeId,
                       toiletRoomsCount, avgCubicles>>
     \/ /\ variant = "officeOld"
        /\ kitchensCount' = kitchensCount + 1
        /\ Grown(<<"kitchen">>)
        /\ UNCHANGED <<rooms, extras, form, kitchenSizeId, toiletRoomsCount,
                       avgCubicles>>
     \/ /\ variant = "home"
        /\ \E f \in DOMAIN COUNT_OPTIONS :
             /\ CountInt(form[f]) + 1 < COUNT_OPTIONS[f]
             /\ form' = [form EXCEPT ![f] = IntToStr(CountInt(form[f]) + 1)]
             /\ Grown(<<"count", f>>)
        /\ UNCHANGED <<rooms, extras, kitchensCount, kitchenSizeId,
                       toiletRoomsCount, avgCubicles>>
     \/ /\ variant = "home"
        /\ \E k \in 1..Len(AdditionalRoomLabels) :
             /\ \A i \in 1..Len(form.additionalRooms) :
                  form.additionalRooms[i] # AdditionalRoomLabels[k]
             /\ form' = [form EXCEPT !.additionalRooms =
                                       Append(@, AdditionalRoomLabels[k])]
             /\ Grown(<<"additionalRoom", AdditionalRoomLabels[k]>>)
        /\ UNCHANGED <<rooms, extras, kitchensCount, kitchenSizeId,
                       toiletRoomsCount, avgCubicles>>

\* one more unit of an appliance in the office forms, one more add-on
\* ticked in the residential form
AddAddOn ==
  /\ quotePc = "fresh"
  /\ probePc = "idle"
  /\ \/ /\ variant \in {"office", "officeOld"}
        /\ \E k \in DOMAIN extras :
             /\ extras' = [extras EXCEPT ![k] = @ + 1]
             /\ Grown(<<"extra", k>>)
        /\ UNCHANGED <<rooms, form, kitchensCount, kitchenSizeId,
                       toiletRoomsCount, avgCubicles>>
     \/ /\ variant = "home"
        /\ \E k \in 1..Len(AddOnLabels) :
             /\ \A i \in 1..Len(form.addOns) : form.addOns[i] # AddOnLabels[k]
             /\ form' = [form EXCEPT !.addOns = Append(@, AddOnLabels[k])]
             /\ Grown(<<"addOn", AddOnLabels[k]>>)
        /\ UNCHANGED <<rooms, extras, kitchensCount, kitchenSizeId,
                       toiletRoomsCount, avgCubicles>>

\* the jobs of PricingInit on the three other pages, at two footfall levels
\* and with or without a date
GrowthInit ==
  /\ PricingInit
  /\ variant # "promo"
  /\ form.cleanliness \in {"", "quite-dirty"}
  /\ selectedDate \in {NoDate, Saturday(Morning)}

GrowthNext == ComputePricing \/ AddRoom \/ AddAddOn

GrowthSpec == GrowthInit /\ [][GrowthNext]_vars

\* C30: in the non-promotional variants, once a room or an add-on unit has
\* been added to a job and the quote recomputed, with footfall level,
\* supplies choice and date unchanged, neither the labour charge nor
\* totalPrice is lower than it was for the job without the unit.
C30_QuoteMonotone ==
  (probePc = "in" /\ quotePc = "fresh")
    => /\ ~BigLt[pricing.labour, probeOut.labour]
       /\ ~BigLt[pricing.totalPrice, probeOut.totalPrice]
====
